---- MODULE Spec2Model ----
(***************************************************************************)
(* Verification model of the ArbitrageV bot: the market graph              *)
(* (ArbitrageGraph), the bounded dynamic-programming cycle search, the     *)
(* conflict-aware opportunity scheduler (OpportunityManager) with its      *)
(* NonceManager, and the event monitor's re-entrancy guard (EventMonitor). *)
(* Each component has its own specification over the shared variables:     *)
(*   SpecGraph  - addPair / updatePairReserves / updatePairReservesBatch   *)
(*   SpecSearch - findArbitrageOpportunities, one inner-loop step a time   *)
(*   SpecSched  - processOpportunities batches and nonce allocation        *)
(*   SpecMon    - handleSyncEvents / processUpdates                        *)
(*   SpecValidate  - calculateMaxProfit and the ranking of the candidates   *)
(*   SpecSignature - generateSignature                                      *)
(*   SpecTransport - start / stop / restart / onError of the monitor        *)
(*   SpecPipeline  - the monitor's passes with the batches they start       *)
(***************************************************************************)
EXTENDS Integers, Sequences, FiniteSets, TLC

VARIABLES
    \* ---- ArbitrageGraph (src/src/graph.ts:486-493)
    graph,                      \* Map<Address, Edge[]>: adjacency lists
    tokens,                     \* Set<Address>
    pairs,                      \* Map<Address, PairInfo>
    edgeIndex,                  \* Map<EdgeKey, Edge>: key -> position of the edge in graph[from]
    tokenToHighestReservePair,  \* Map<Address, {pairAddress, reserves, fee}>
    \* ---- history of the graph operations (not program state)
    lastOp,                     \* the last addPair call and its arguments
    \* ---- one findArbitrageOpportunities call (src/src/graph.ts:631-738)
    search,                     \* its arguments and loop position: startToken, maxDepth, NERK, step, pc
    dp,                         \* DPTable: dp[k + 1] is the Map of step k, in insertion order
    work,                       \* the (entry, edge) pairs of the current step still to visit
    rawOpportunities,           \* the raw candidates pushed so far
    lastExt,                    \* history: the last extension inserted into the table
    validated,                  \* the candidates mapped by calculateMaxProfit so far (graph.ts:716-720)
    result,                     \* the value findArbitrageOpportunities returns (graph.ts:725-737)
    newton,                     \* the locals of a running calculateMaxProfit (graph.ts:754-758)
    reported,                   \* history: the pool lists returned by earlier searches
    signature,                  \* history: the last call of generateSignature (test.ts:59-62)
    \* ---- OpportunityManager instances and the NonceManager singleton
    \*      (src/unnamed/part_008:289-297, src/unnamed/part_006:4-5, 58)
    managers,                   \* per instance: position in processOpportunities, sortedOpps, usedPairs
    currentNonce,               \* NonceManager.currentNonce: "null" or a number
    chainCount,                 \* what client.getTransactionCount returns: transactions mined so far
    mempool,                    \* nonces of the transactions accepted by writeContract, not yet mined
    nonceLog,                   \* history: the last nonce taken and the largest taken before it
    \* ---- EventMonitor (src/src/event.ts:25-35)
    isCheckingArbitrage,        \* the re-entrancy flag
    pendingUpdates,             \* ReserveUpdate[] queued during a pass
    calls,                      \* the processUpdates activations that are suspended at an await
    lastMon,                    \* history: the last delivery or flush and what it met
    delivered,                  \* history: per pool, the reserves of the last update delivered
    \* ---- EventMonitor: the event subscription (src/src/event.ts:26-34)
    networkConfig,              \* networkConfig.wsClient: is a WebSocket client configured
    isRunning,
    usingWebSocket,
    wsClient,                   \* is this.wsClient defined
    unwatchFn,                  \* the subscription whose unwatch function is stored, or NoSub
    tasks,                      \* the start / onError activations suspended at an await
    subscriptions,              \* the subscriptions made at the clients, active or ended
    transportLog                \* history: which transports failed, which calls were made

graphVars == <<graph, tokens, pairs, edgeIndex, tokenToHighestReservePair>>
searchVars == <<search, dp, work, rawOpportunities, lastExt, validated, result, newton, reported, signature>>
schedVars == <<managers, currentNonce, chainCount, mempool, nonceLog>>
transportVars == <<networkConfig, isRunning, usingWebSocket, wsClient, unwatchFn, tasks,
                   subscriptions, transportLog>>
monVars == <<isCheckingArbitrage, pendingUpdates, calls, lastMon, delivered, transportVars>>
vars == <<graph, tokens, pairs, edgeIndex, tokenToHighestReservePair, lastOp,
          search, dp, work, rawOpportunities, lastExt, validated, result, newton, reported, signature,
          managers, currentNonce, chainCount, mempool, nonceLog,
          isCheckingArbitrage, pendingUpdates, calls, lastMon, delivered,
          networkConfig, isRunning, usingWebSocket, wsClient, unwatchFn, tasks,
          subscriptions, transportLog>>

-----------------------------------------------------------------------------
(* Bounds of the model *)

MaxReserve == 2         \* largest reserve supplied to the graph operations
MaxBatch == 2           \* longest list handed to updatePairReservesBatch
MaxDepth == 3           \* largest maxDepth handed to findArbitrageOpportunities
\* The beam width of the table (10 in constants.ts), scaled down so that
\* graphs of a few pools overflow a bucket.
MAX_ENTRIES_PER_TOKEN == 2
MaxOpps == 3            \* longest list handed to processOpportunities
MaxNonce == 2           \* nonces are handed out while currentNonce < MaxNonce
MaxCalls == 3           \* processUpdates activations suspended at an await at once
MaxUpdates == 2         \* pendingUpdates holds at most MaxUpdates queued updates

\* currentNonce: number | null = null (src/unnamed/part_006:5)
NullNonce == -1

-----------------------------------------------------------------------------
(* Addresses.  Token and pool addresses are strings; a pool address fixes  *)
(* its two tokens (they are immutable on chain).                           *)

ADDRESSES == <<"USDC", "ETH", "BTC">>
TokenAddrs == {ADDRESSES[i] : i \in 1..Len(ADDRESSES)}

PoolAddrs == {"p1", "p2", "p3", "p4", "p5", "p6"}
PoolTokens ==
    [p \in PoolAddrs |->
        CASE p = "p1" -> <<"USDC", "ETH">>
          [] p = "p2" -> <<"ETH", "BTC">>
          [] p = "p3" -> <<"BTC", "USDC">>
          [] p = "p4" -> <<"USDC", "ETH">>
          [] p = "p5" -> <<"ETH", "USDC">>
          [] p = "p6" -> <<"USDC", "ETH">>]

\* Fee parameters of the pools, as the pool snapshot source reports them: base
\* fee, buy/sell transfer tax and the taxed side.  They are properties of the
\* pool, like its tokens.
NoTax(f) == [fee |-> f, buyFeeBps |-> 0, sellFeeBps |-> 0, isToken0 |-> TRUE]
PoolFees ==
    [p \in PoolAddrs |->
        CASE p = "p4" -> [fee |-> 30, buyFeeBps |-> 100, sellFeeBps |-> 200, isToken0 |-> FALSE]
          [] p = "p5" -> [fee |-> 25, buyFeeBps |-> 50, sellFeeBps |-> 0, isToken0 |-> TRUE]
          [] OTHER -> NoTax(30)]

PairInfo(p, r0, r1) ==
    [pairAddress |-> p, token0 |-> PoolTokens[p][1], token1 |-> PoolTokens[p][2],
     reserve0 |-> r0, reserve1 |-> r1,
     fee |-> PoolFees[p].fee, buyFeeBps |-> PoolFees[p].buyFeeBps,
     sellFeeBps |-> PoolFees[p].sellFeeBps, isToken0 |-> PoolFees[p].isToken0]

-----------------------------------------------------------------------------
(* ArbitrageGraph.  The operations are written as operators on a record G  *)
(* of the five fields so that a batch can fold them.                       *)

EmptyGraph ==
    [graph |-> [t \in TokenAddrs |-> <<>>],
     tokens |-> {},
     pairs |-> <<>>,
     edgeIndex |-> <<>>,
     best |-> <<>>]

\* createEdgeKey: `${fromToken}-${pairAddress}`
createEdgeKey(fromToken, pairAddress) == <<fromToken, pairAddress>>

MapSet(m, k, v) == [x \in DOMAIN m \cup {k} |-> IF x = k THEN v ELSE m[x]]

\* updateHighestReserve (closure inside updateGraphEdges)
updateHighestReserve(best, pair, token, reserve) ==
    IF token \notin DOMAIN best \/ reserve > best[token].reserves
    THEN MapSet(best, token,
                [pairAddress |-> pair.pairAddress, reserves |-> reserve, fee |-> pair.fee])
    ELSE best

\* calculateEffectiveFee (closure inside updateGraphEdges)
TaxesSwapped(direction, pair) ==
    LET isSellingTaxedToken ==
            \/ (pair.isToken0 /\ direction = "token0ToToken1")
            \/ (~pair.isToken0 /\ direction = "token1ToToken0")
    IN IF isSellingTaxedToken THEN pair.fee + pair.buyFeeBps
                              ELSE pair.fee + pair.sellFeeBps
calculateEffectiveFee(direction, pair) ==
    LET isSellingTaxedToken ==
            \/ (pair.isToken0 /\ direction = "token0ToToken1")
            \/ (~pair.isToken0 /\ direction = "token1ToToken0")
    IN IF isSellingTaxedToken THEN pair.fee + pair.sellFeeBps
                              ELSE pair.fee + pair.buyFeeBps

\* One direction of updateGraphEdges: refresh the indexed edge in place, or
\* push a new edge on the adjacency list of `from` and index it.
PushAlways(G, pair, from, to, direction, rIn, rOut) ==
    LET newEdge == [to |-> to, pairAddress |-> pair.pairAddress, direction |-> direction,
                    fee |-> calculateEffectiveFee(direction, pair),
                    reserveIn |-> rIn, reserveOut |-> rOut]
        key == createEdgeKey(from, pair.pairAddress)
    IN [G EXCEPT !.graph[from] = Append(@, newEdge),
                 !.edgeIndex = MapSet(@, key, Len(G.graph[from]) + 1)]

UpdateEdge(G, pair, from, to, direction, rIn, rOut) ==
    LET key == createEdgeKey(from, pair.pairAddress)
        fee == calculateEffectiveFee(direction, pair)
    IN IF key \in DOMAIN G.edgeIndex
       THEN [G EXCEPT !.graph[from][G.edgeIndex[key]] =
                        [@ EXCEPT !.fee = fee, !.reserveIn = rIn, !.reserveOut = rOut]]
       ELSE PushAlways(G, pair, from, to, direction, rIn, rOut)

\* updateGraphEdges(pair)
updateGraphEdges(G, pair) ==
    IF pair.reserve0 = 0 \/ pair.reserve1 = 0 THEN G
    ELSE
      LET b1 == updateHighestReserve(G.best, pair, pair.token0, pair.reserve0)
          b2 == updateHighestReserve(b1, pair, pair.token1, pair.reserve1)
          G1 == [G EXCEPT !.best = b2]
          G2 == UpdateEdge(G1, pair, pair.token0, pair.token1, "token0ToToken1",
                           pair.reserve0, pair.reserve1)
      IN UpdateEdge(G2, pair, pair.token1, pair.token0, "token1ToToken0",
                    pair.reserve1, pair.reserve0)

\* addPair(pair)
addPair(G, pair) ==
    IF pair.reserve0 = 0 \/ pair.reserve1 = 0 THEN G
    ELSE
      LET G1 == [G EXCEPT !.tokens = @ \cup {pair.token0, pair.token1},
                          !.pairs = MapSet(@, pair.pairAddress, pair)]
      IN updateGraphEdges(G1, pair)

\* First loop of updatePairReservesBatch: store the reserves of every known
\* pool named in the batch; unknown pools are skipped.
RECURSIVE StoreReserves(_, _)
StoreFirst(prs, updates) ==
    IF updates = <<>> THEN prs
    ELSE LET u == Head(updates)
         IN IF u.pairAddress \in DOMAIN prs
            THEN [prs EXCEPT ![u.pairAddress].reserve0 = u.reserve0,
                             ![u.pairAddress].reserve1 = u.reserve1]
            ELSE prs
StopAtUnknown(prs, updates) ==
    IF updates = <<>> THEN prs
    ELSE LET u == Head(updates)
         IN IF u.pairAddress \in DOMAIN prs
            THEN StoreReserves([prs EXCEPT ![u.pairAddress].reserve0 = u.reserve0,
                                           ![u.pairAddress].reserve1 = u.reserve1],
                               Tail(updates))
            ELSE prs
StoreReserves(prs, updates) ==
    IF updates = <<>> THEN prs
    ELSE LET u == Head(updates)
         IN StoreReserves(
                IF u.pairAddress \in DOMAIN prs
                THEN [prs EXCEPT ![u.pairAddress].reserve0 = u.reserve0,
                                 ![u.pairAddress].reserve1 = u.reserve1]
                ELSE prs,
                Tail(updates))

\* updatedPairs: the Set<PairInfo> of the batch, in insertion order.
RECURSIVE UpdatedPairs(_, _, _)
UpdatedPairs(prs, updates, acc) ==
    IF updates = <<>> THEN acc
    ELSE LET p == Head(updates).pairAddress
         IN UpdatedPairs(prs, Tail(updates),
                IF p \in DOMAIN prs /\ \A i \in 1..Len(acc) : acc[i] # p
                THEN Append(acc, p) ELSE acc)

\* Second loop of updatePairReservesBatch: one updateGraphEdges per modified pool.
RECURSIVE RefreshEdges(_, _)
RefreshEdges(G, ps) ==
    IF ps = <<>> THEN G
    ELSE RefreshEdges(updateGraphEdges(G, G.pairs[Head(ps)]), Tail(ps))

\* updatePairReservesBatch(updates)
updatePairReservesBatch(G, updates) ==
    LET G1 == [G EXCEPT !.pairs = StoreReserves(@, updates)]
    IN RefreshEdges(G1, UpdatedPairs(G.pairs, updates, <<>>))

\* updatePairReserves(pairAddress, reserve0, reserve1)
updatePairReserves(G, pairAddress, reserve0, reserve1) ==
    updatePairReservesBatch(G,
        <<[pairAddress |-> pairAddress, reserve0 |-> reserve0, reserve1 |-> reserve1]>>)

-----------------------------------------------------------------------------
(* SpecGraph: the graph under arbitrary sequences of its mutating calls.   *)

GraphNow ==
    [graph |-> graph, tokens |-> tokens, pairs |-> pairs, edgeIndex |-> edgeIndex,
     best |-> tokenToHighestReservePair]

SetGraph(G) ==
    /\ graph' = G.graph
    /\ tokens' = G.tokens
    /\ pairs' = G.pairs
    /\ edgeIndex' = G.edgeIndex
    /\ tokenToHighestReservePair' = G.best

\* Inputs of the graph operations.  Reserves are zero, one or MaxReserve;
\* addPair is called for the two taxed pools of GraphPools, which trade the
\* same tokens; updates may also name the pool "p3", which the graph then
\* does not know.
Reserves == {0, 1, MaxReserve}
GraphPools == {"p4", "p5"}
Update(p, r0, r1) == [pairAddress |-> p, reserve0 |-> r0, reserve1 |-> r1]
Updates == {Update(p, r0, r1) : p \in GraphPools \cup {"p3"}, r0 \in Reserves, r1 \in Reserves}
BatchUpdates ==
    {Update(p, r[1], r[2]) : p \in GraphPools, r \in {<<0, 1>>, <<1, 1>>, <<MaxReserve, MaxReserve>>}}
        \cup {Update("p3", 1, 1)}

RECURSIVE SeqsUpTo(_, _)
SeqsUpTo(S, n) ==
    IF n = 0 THEN {<<>>}
    ELSE LET shorter == SeqsUpTo(S, n - 1)
         IN shorter \cup {Append(s, x) : s \in {t \in shorter : Len(t) = n - 1}, x \in S}

NoOp == [op |-> "none"]

\* No search is running (the value of the search variables outside SpecSearch).
SearchIdle ==
    /\ search = [pc |-> "idle"]
    /\ dp = <<>>
    /\ work = <<>>
    /\ rawOpportunities = <<>>
    /\ lastExt = NoOp
    /\ validated = <<>>
    /\ result = NoOp
    /\ newton = NoOp
    /\ reported = <<>>
    /\ signature = NoOp

\* No OpportunityManager exists (the value of the scheduler variables outside
\* SpecSched).
SchedIdle ==
    /\ managers = <<>>
    /\ currentNonce = NullNonce
    /\ chainCount = 0
    /\ mempool = {}
    /\ nonceLog = NoOp

\* this.unwatchFn is undefined
NoSub == 0

\* An EventMonitor constructed without a WebSocket client and never started
\* (the value of the subscription variables outside SpecTransport).
TransportIdle ==
    /\ networkConfig = [wsClient |-> FALSE]
    /\ isRunning = FALSE
    /\ usingWebSocket = FALSE
    /\ wsClient = FALSE
    /\ unwatchFn = NoSub
    /\ tasks = <<>>
    /\ subscriptions = {}
    /\ transportLog = NoOp

\* The monitor is not running (the value of its variables outside SpecMon).
MonIdle ==
    /\ isCheckingArbitrage = FALSE
    /\ pendingUpdates = <<>>
    /\ calls = <<>>
    /\ lastMon = NoOp
    /\ delivered = <<>>
    /\ TransportIdle

InitGraph ==
    /\ graph = EmptyGraph.graph
    /\ tokens = {}
    /\ pairs = <<>>
    /\ edgeIndex = <<>>
    /\ tokenToHighestReservePair = <<>>
    /\ lastOp = NoOp
    /\ SearchIdle
    /\ SchedIdle
    /\ MonIdle

\* lastOp records an addPair with non-zero reserves: its arguments, and whether
\* the pool was registered before with other reserves.
AddPair ==
    \E p \in GraphPools, r0 \in Reserves, r1 \in Reserves :
        /\ SetGraph(addPair(GraphNow, PairInfo(p, r0, r1)))
        /\ lastOp' = IF r0 = 0 \/ r1 = 0 THEN NoOp
                      ELSE [op |-> "addPair", pair |-> p, r0 |-> r0, r1 |-> r1,
                            again |-> /\ p \in DOMAIN pairs
                                      /\ <<r0, r1>> # <<pairs[p].reserve0, pairs[p].reserve1>>]
        /\ UNCHANGED <<searchVars, schedVars, monVars>>

UpdatePairReserves ==
    \E u \in Updates :
        /\ SetGraph(updatePairReserves(GraphNow, u.pairAddress, u.reserve0, u.reserve1))
        /\ lastOp' = NoOp
        /\ UNCHANGED <<searchVars, schedVars, monVars>>

UpdatePairReservesBatch ==
    \E us \in SeqsUpTo(BatchUpdates, MaxBatch) :
        /\ SetGraph(updatePairReservesBatch(GraphNow, us))
        /\ lastOp' = NoOp
        /\ UNCHANGED <<searchVars, schedVars, monVars>>

NextGraph == AddPair \/ UpdatePairReserves \/ UpdatePairReservesBatch

SpecGraph == InitGraph /\ [][NextGraph]_vars

-----------------------------------------------------------------------------
(* JavaScript numbers.  DPEntry.amountOut and the swap formula are IEEE     *)
(* doubles; the model keeps a decimal floating-point number m * 10^e with a *)
(* four-digit mantissa (MantLo <= m < MantHi, or m = 0), rounded toward     *)
(* zero after every operation.  Only non-negative values occur.             *)

MantLo == 1000
MantHi == 10000

RECURSIVE Norm(_, _)
Norm(m, e) ==
    IF m = 0 THEN [m |-> 0, e |-> 0]
    ELSE IF m >= MantHi THEN Norm(m \div 10, e + 1)
    ELSE IF m < MantLo THEN Norm(m * 10, e - 1)
    ELSE [m |-> m, e |-> e]

RECURSIVE Pow10(_)
Pow10(n) == IF n = 0 THEN 1 ELSE 10 * Pow10(n - 1)

\* Number(bigint) and number literals
Num(n) == Norm(n, 0)
FMul(a, b) == Norm(a.m * b.m, a.e + b.e)
FDiv(a, b) == Norm((a.m * MantHi) \div b.m, a.e - b.e - 4)
FAdd(a, b) ==
    IF a.m = 0 THEN b
    ELSE IF b.m = 0 THEN a
    ELSE IF a.e >= b.e
         THEN IF a.e - b.e > 4 THEN a ELSE Norm(a.m * Pow10(a.e - b.e) + b.m, b.e)
         ELSE IF b.e - a.e > 4 THEN b ELSE Norm(b.m * Pow10(b.e - a.e) + a.m, a.e)
\* a - b for a >= b >= 0
FSub(a, b) ==
    IF b.m = 0 THEN a
    ELSE IF a.e - b.e > 4 THEN a
    ELSE Norm(a.m * Pow10(a.e - b.e) - b.m, b.e)
FLess(a, b) ==
    IF b.m = 0 THEN FALSE
    ELSE IF a.m = 0 THEN TRUE
    ELSE a.e < b.e \/ (a.e = b.e /\ a.m < b.m)

-----------------------------------------------------------------------------
(* findArbitrageOpportunities: the dynamic program over hop counts.         *)

\* ADDRESSES[1].address, the secondary token of NERK mode
nerkToken == ADDRESSES[2]

\* The swap formula of the inner loop (graph.ts:662-665)
NewAmountOut(amountOut, edge) ==
    LET feeMultiplier == FSub(Num(1), FDiv(Num(edge.fee), Num(10000)))
        amountInAfterFee == FMul(amountOut, feeMultiplier)
    IN FDiv(FMul(amountInAfterFee, Num(edge.reserveOut)),
            FAdd(Num(edge.reserveIn), amountInAfterFee))

\* entry.pairs.includes(edge.pairAddress)
NeverRevisits(entry, edge) == FALSE
PairUsed(entry, edge) == \E i \in 1..Len(entry.pairs) : entry.pairs[i] = edge.pairAddress

NewEntry(entry, edge) ==
    [amountOut |-> NewAmountOut(entry.amountOut, edge),
     path |-> Append(entry.path, edge.to),
     pairs |-> Append(entry.pairs, edge.pairAddress),
     directions |-> Append(entry.directions, edge.direction)]

\* entries.sort((a, b) => b.amountOut - a.amountOut): a stable sort, descending.
RECURSIVE InsertDesc(_, _)
InsertBeforeEqual(sorted, x) ==
    IF sorted = <<>> THEN <<x>>
    ELSE IF ~FLess(x.amountOut, Head(sorted).amountOut) THEN <<x>> \o sorted
    ELSE <<Head(sorted)>> \o InsertDesc(Tail(sorted), x)
InsertDesc(sorted, x) ==
    IF sorted = <<>> THEN <<x>>
    ELSE IF FLess(Head(sorted).amountOut, x.amountOut) THEN <<x>> \o sorted
    ELSE <<Head(sorted)>> \o InsertDesc(Tail(sorted), x)

RECURSIVE SortEntries(_)
SortEntries(entries) ==
    IF entries = <<>> THEN <<>>
    ELSE InsertDesc(SortEntries(SubSeq(entries, 1, Len(entries) - 1)), entries[Len(entries)])

\* entries.splice(MAX_ENTRIES_PER_TOKEN)
KeepAll(entries) == entries
Splice(entries) ==
    IF Len(entries) > MAX_ENTRIES_PER_TOKEN
    THEN SubSeq(entries, 1, MAX_ENTRIES_PER_TOKEN) ELSE entries

\* A Map of the table is a sequence of [token, entries] in insertion order.
MapGet(m, token) ==
    IF \E i \in 1..Len(m) : m[i].token = token
    THEN m[CHOOSE i \in 1..Len(m) : m[i].token = token].entries
    ELSE <<>>
MapPut(m, token, entries) ==
    IF \E i \in 1..Len(m) : m[i].token = token
    THEN [i \in 1..Len(m) |-> IF m[i].token = token THEN [m[i] EXCEPT !.entries = entries]
                                                     ELSE m[i]]
    ELSE Append(m, [token |-> token, entries |-> entries])

\* Lines 675-679: push, sort, splice, set.
InsertEntry(m, targetToken, newEntry) ==
    MapPut(m, targetToken, Splice(SortEntries(Append(MapGet(m, targetToken), newEntry))))

\* Lines 681-709: is the extension pushed on rawOpportunities?
Emits(step, startToken, targetToken, NERK) ==
    /\ step >= 2
    /\ \/ targetToken = startToken
       \/ /\ NERK
          /\ \/ (startToken # nerkToken /\ targetToken = nerkToken)
             \/ (startToken = nerkToken /\ targetToken # nerkToken)
             \/ (startToken = nerkToken /\ targetToken = nerkToken)

\* The three nested loops of one step (lines 653-657), flattened in order.
RECURSIVE PairsOf(_, _), EntriesTimesEdges(_, _), StepWork(_, _)
PairsOf(entry, edges) ==
    IF edges = <<>> THEN <<>>
    ELSE <<[entry |-> entry, edge |-> Head(edges)]>> \o PairsOf(entry, Tail(edges))
EntriesTimesEdges(entries, edges) ==
    IF entries = <<>> THEN <<>>
    ELSE PairsOf(Head(entries), edges) \o EntriesTimesEdges(Tail(entries), edges)
StepWork(m, g) ==
    IF m = <<>> THEN <<>>
    ELSE EntriesTimesEdges(Head(m).entries, g[Head(m).token]) \o StepWork(Tail(m), g)

\* The graphs a search runs on: built by addPair from a pool snapshot.
RECURSIVE BuildGraph(_, _)
BuildGraph(G, snapshot) ==
    IF snapshot = <<>> THEN G
    ELSE BuildGraph(addPair(G, Head(snapshot)), Tail(snapshot))

\* The three-pool scenario: USDC/ETH 1000/5, ETH/BTC 10/1, BTC/USDC 1/20000.
Scenario == << PairInfo("p1", 1000, 5), PairInfo("p2", 10, 1), PairInfo("p3", 1, 20000) >>

\* Two USDC/ETH pools with the same reserves and fees (p1, p6), registered
\* before a third with a lower fee out of ETH: a swap through either of the
\* twins has the same output.
TwinPools ==
    << PairInfo("p1", MaxReserve, 1), PairInfo("p6", MaxReserve, 1),
       PairInfo("p5", 1, MaxReserve) >>

\* Snapshots: each of the three parallel USDC/ETH pools is absent or has
\* reserves 1/MaxReserve or MaxReserve/1; the two other sides of the triangle
\* are absent or balanced.
Option(p, choices) == {<<>>} \cup {<<PairInfo(p, r[1], r[2])>> : r \in choices}
Snapshots ==
    {a \o b \o c \o d \o e :
        a \in Option("p1", {<<1, MaxReserve>>, <<MaxReserve, 1>>}),
        b \in Option("p4", {<<1, MaxReserve>>, <<MaxReserve, 1>>}),
        c \in Option("p5", {<<1, MaxReserve>>, <<MaxReserve, 1>>}),
        d \in Option("p2", {<<MaxReserve, MaxReserve>>}),
        e \in Option("p3", {<<MaxReserve, MaxReserve>>})}
      \cup {Scenario, TwinPools}

InitSearch ==
    \E snapshot \in Snapshots, startToken \in TokenAddrs, maxDepth \in 1..MaxDepth,
       NERK \in BOOLEAN :
        LET G == BuildGraph(EmptyGraph, snapshot)
        IN /\ graph = G.graph
           /\ tokens = G.tokens
           /\ pairs = G.pairs
           /\ edgeIndex = G.edgeIndex
           /\ tokenToHighestReservePair = G.best
           /\ lastOp = NoOp
           \* lines 635-648
           /\ search = [pc |-> "loop", startToken |-> startToken, maxDepth |-> maxDepth,
                        NERK |-> NERK, step |-> 0]
           /\ dp = << << [token |-> startToken,
                          entries |-> <<[amountOut |-> Num(1), path |-> <<startToken>>,
                                         pairs |-> <<>>, directions |-> <<>>]>>] >> >>
           /\ work = <<>>
           /\ rawOpportunities = <<>>
           /\ lastExt = NoOp
           /\ validated = <<>>
           /\ result = NoOp
           /\ newton = NoOp
           /\ reported = <<>>
           /\ signature = NoOp
           /\ SchedIdle
           /\ MonIdle

\* for (let step = 1; step <= maxDepth; step++) { dp[step] = new Map(); ...
BeginStep ==
    /\ search.pc = "loop" /\ work = <<>> /\ search.step < search.maxDepth
    /\ search' = [search EXCEPT !.step = @ + 1]
    /\ dp' = Append(dp, <<>>)
    /\ work' = StepWork(dp[search.step + 1], graph)
    /\ lastExt' = NoOp
    /\ UNCHANGED <<graphVars, lastOp, rawOpportunities, validated, result, newton, reported, signature, schedVars, monVars>>

\* if (entry.pairs.includes(edge.pairAddress)) continue;
SkipUsedPair ==
    /\ search.pc = "loop" /\ work # <<>>
    /\ PairUsed(Head(work).entry, Head(work).edge)
    /\ work' = Tail(work)
    /\ lastExt' = NoOp
    /\ UNCHANGED <<graphVars, lastOp, search, dp, rawOpportunities, validated, result, newton, reported, signature, schedVars, monVars>>

\* One pass through the body of the inner loop, lines 661-709.
Extend ==
    /\ search.pc = "loop" /\ work # <<>>
    /\ ~PairUsed(Head(work).entry, Head(work).edge)
    /\ LET newEntry == NewEntry(Head(work).entry, Head(work).edge)
           targetToken == Head(work).edge.to
           k == search.step + 1
           emit == Emits(search.step, search.startToken, targetToken, search.NERK)
       IN /\ dp' = [dp EXCEPT ![k] = InsertEntry(@, targetToken, newEntry)]
          /\ rawOpportunities' =
                IF emit
                THEN Append(rawOpportunities,
                            [path |-> newEntry.path, pairs |-> newEntry.pairs,
                             directions |-> newEntry.directions])
                ELSE rawOpportunities
          /\ lastExt' = [op |-> "extend", step |-> search.step, to |-> targetToken,
                         emitted |-> emit,
                         full |-> Len(MapGet(dp[k], targetToken)) >= MAX_ENTRIES_PER_TOKEN]
    /\ work' = Tail(work)
    /\ UNCHANGED <<graphVars, lastOp, search, validated, result, newton, reported, signature, schedVars, monVars>>

\* The loop over the steps has ended; the candidates go on to validation.
EndSearch ==
    /\ search.pc = "loop" /\ work = <<>> /\ search.step = search.maxDepth
    /\ search' = [search EXCEPT !.pc = "validate"]
    /\ lastExt' = NoOp
    /\ UNCHANGED <<graphVars, lastOp, dp, work, rawOpportunities, validated, result, newton, reported, signature, schedVars, monVars>>

NextSearch == BeginStep \/ SkipUsedPair \/ Extend \/ EndSearch

SpecSearch == InitSearch /\ [][NextSearch]_vars

-----------------------------------------------------------------------------
(* OpportunityManager.processOpportunities and the NonceManager singleton  *)
(* (src/unnamed/part_008:289-515, src/unnamed/part_006).  Every await of   *)
(* the code is a point where the other handlers of the process may run.    *)

Managers == {"m1", "m2"}

\* Addresses are hexadecimal strings that may be spelt with capitals; these are
\* the capitalised spellings used below, with their lower-case forms.
MixedCase == {<<"P1", "p1">>, <<"P2", "p2">>, <<"USDC", "usdc">>}
toLowerCase(a) ==
    IF \E c \in MixedCase : c[1] = a
    THEN (CHOOSE c \in MixedCase : c[1] = a)[2]
    ELSE a

\* The graph handed to processOpportunities: the three-pool scenario and two
\* more USDC/ETH pools.  The deepest USDC pool is p3.
SchedSnapshot == Scenario \o << PairInfo("p4", 2, 1), PairInfo("p5", 1, 2) >>

\* ArbitrageOpportunity values (part_008:280-286) handed to the manager.  A is
\* circular, B and C are not, and D is circular through the deepest USDC pool.
OpportunityNames == {"A", "B", "C", "D"}
Opportunity(name) ==
    CASE name = "A" -> [path |-> <<"USDC", "ETH", "usdc">>, pairs |-> <<"p1", "p4">>,
                        optimalAmount |-> 1, expectedProfit |-> 3]
      [] name = "B" -> [path |-> <<"ETH", "USDC", "BTC">>, pairs |-> <<"P1", "p3">>,
                        optimalAmount |-> 1, expectedProfit |-> 2]
      [] name = "C" -> [path |-> <<"USDC", "BTC", "ETH">>, pairs |-> <<"p3", "P2">>,
                        optimalAmount |-> 1, expectedProfit |-> 1]
      [] name = "D" -> [path |-> <<"USDC", "ETH", "BTC", "USDC">>, pairs |-> <<"p4", "p2", "p3">>,
                        optimalAmount |-> 1, expectedProfit |-> 2]

\* The lists handed to processOpportunities: up to MaxOpps opportunities, in
\* ascending order of profit (D before B at equal profit).
InputOrder == <<"C", "D", "B", "A">>
InList(S, name) == name \in S
OpportunityLists(n) ==
    {SelectSeq(InputOrder, LAMBDA name : InList(S, name)) :
        S \in {T \in SUBSET OpportunityNames : Cardinality(T) <= n}}
\* m1 is handed the lists of up to MaxOpps opportunities; m2, whose passes
\* overlap those of m1, is handed a single opportunity.
ListsFor(m) == IF m = "m1" THEN OpportunityLists(MaxOpps) ELSE OpportunityLists(1) \ {<<>>}

\* findBestPairForToken (graph.ts:893-907); NullPair stands for null.
NullPair == [pairAddress |-> "null", fee |-> 0]
bestPairOfIndex(best, token, amountIn, excludePairs) ==
    IF token \notin DOMAIN best THEN NullPair
    ELSE [pairAddress |-> best[token].pairAddress, fee |-> best[token].fee]
findBestPairForToken(best, token, amountIn, excludePairs) ==
    IF token \notin DOMAIN best THEN NullPair
    ELSE IF \E i \in DOMAIN excludePairs : excludePairs[i] = best[token].pairAddress
         THEN NullPair
    ELSE IF best[token].reserves < amountIn * 3 THEN NullPair
    ELSE [pairAddress |-> best[token].pairAddress, fee |-> best[token].fee]

\* pairs.some(pair => this.usedPairs.has(pair.toLowerCase()))
NoConflict(usedPairs, oppPairs) == FALSE
hasConflict(usedPairs, oppPairs) ==
    \E i \in DOMAIN oppPairs : toLowerCase(oppPairs[i]) \in usedPairs

\* pairs.forEach(pair => this.usedPairs.add(pair.toLowerCase()))
MarkNothing(usedPairs, oppPairs) == usedPairs
markPairsAsUsed(usedPairs, oppPairs) ==
    usedPairs \cup {toLowerCase(oppPairs[i]) : i \in DOMAIN oppPairs}

\* [...opportunities].sort((a, b) => Number(b.expectedProfit - a.expectedProfit)):
\* a stable sort, descending.
RECURSIVE InsertByProfit(_, _)
InsertByProfit(sorted, name) ==
    IF sorted = <<>> THEN <<name>>
    ELSE IF Opportunity(Head(sorted)).expectedProfit >= Opportunity(name).expectedProfit
         THEN <<Head(sorted)>> \o InsertByProfit(Tail(sorted), name)
         ELSE <<name>> \o sorted
RECURSIVE SortFrom(_, _)
SortFrom(sorted, rest) ==
    IF rest = <<>> THEN sorted
    ELSE SortFrom(InsertByProfit(sorted, Head(rest)), Tail(rest))
Unsorted(opportunities) == opportunities
sortedOpps(opportunities) == SortFrom(<<>>, opportunities)

\* executeArbitrageOpportunity: isCircular (part_008:365-367)
CaseSensitive(opp) == opp.path[1] = opp.path[Len(opp.path)]
isCircular(opp) == toLowerCase(opp.path[1]) = toLowerCase(opp.path[Len(opp.path)])

\* ARB_CONTRACT is a well-formed address in this deployment (part_008:380).
ArbContractValid == TRUE

\* The opportunity the loop of manager m is at.
CurrentOpp(m) == Opportunity(managers[m].sorted[managers[m].idx])
InLoop(m) == managers[m].pc = "loop" /\ managers[m].idx <= Len(managers[m].sorted)

\* The flash-loan pool executeWithFlashswap asks the graph for (part_008:383-
\* 390).
flashLoanPair(opp) ==
    findBestPairForToken(tokenToHighestReservePair, opp.path[1], opp.optimalAmount, opp.pairs)

\* The execution throws before a nonce is taken: the contract address is
\* malformed or no flash-loan pool is found (circular), or the NonceManager is
\* not initialised.
ThrowsBeforeSubmit(opp) ==
    \/ /\ isCircular(opp)
       /\ \/ ~ArbContractValid
          \/ flashLoanPair(opp) = NullPair
    \/ currentNonce = NullNonce

IdleManager ==
    [pc |-> "idle", sorted |-> <<>>, idx |-> 1, usedPairs |-> {}, nonce |-> NullNonce,
     issued |-> {}, done |-> {}, failed |-> {}, flashswap |-> {}, direct |-> {},
     loans |-> {}]

InitSched ==
    LET G == BuildGraph(EmptyGraph, SchedSnapshot)
    IN /\ graph = G.graph
       /\ tokens = G.tokens
       /\ pairs = G.pairs
       /\ edgeIndex = G.edgeIndex
       /\ tokenToHighestReservePair = G.best
       /\ lastOp = NoOp
       /\ SearchIdle
       /\ managers = [m \in Managers |-> IdleManager]
       /\ currentNonce = NullNonce
       /\ chainCount = 0
       /\ mempool = {}
       /\ nonceLog = NoOp
       /\ MonIdle

SchedFrame == UNCHANGED <<graphVars, lastOp, searchVars, monVars>>

Max(a, b) == IF a >= b THEN a ELSE b

\* OpportunityManager.initialize (part_008:299-302): NonceManager.initialize
\* on the singleton sets currentNonce to the account's transaction count.
Initialize ==
    \E m \in Managers :
        /\ managers[m].pc = "idle"
        /\ currentNonce' = chainCount
        /\ UNCHANGED <<managers, chainCount, mempool, nonceLog>>
        /\ SchedFrame

\* processOpportunities is called (part_008:314-325).
ProcessOpportunities ==
    \E m \in Managers : \E opportunities \in ListsFor(m) :
        /\ managers[m].pc = "idle"
        /\ managers' = [managers EXCEPT ![m] =
                [IdleManager EXCEPT !.pc = "loop", !.sorted = sortedOpps(opportunities)]]
        /\ UNCHANGED <<currentNonce, chainCount, mempool, nonceLog>>
        /\ SchedFrame

\* if (this.hasConflict(opp.pairs)) continue;
SkipConflict ==
    \E m \in Managers :
        /\ InLoop(m)
        /\ hasConflict(managers[m].usedPairs, CurrentOpp(m).pairs)
        /\ managers' = [managers EXCEPT ![m].idx = @ + 1]
        /\ UNCHANGED <<currentNonce, chainCount, mempool, nonceLog>>
        /\ SchedFrame

\* try { await this.executeArbitrageOpportunity(graph, opp); ... } catch (error)
\* { ... } (part_008:338-354): the error is logged and the loop goes on with
\* the next opportunity.
Rethrown(manager, name) ==
    [manager EXCEPT !.pc = "rejected", !.nonce = NullNonce, !.failed = @ \cup {name}]
Caught(manager, name) ==
    [manager EXCEPT !.pc = "loop", !.idx = @ + 1, !.nonce = NullNonce,
                    !.failed = @ \cup {name}]

\* The execution throws before getAndIncrement returns.
ThrowBeforeSubmit ==
    \E m \in Managers :
        /\ InLoop(m)
        /\ ~hasConflict(managers[m].usedPairs, CurrentOpp(m).pairs)
        /\ ThrowsBeforeSubmit(CurrentOpp(m))
        /\ managers' = [managers EXCEPT
               ![m] = Caught(managers[m], managers[m].sorted[managers[m].idx])]
        /\ UNCHANGED <<currentNonce, chainCount, mempool, nonceLog>>
        /\ SchedFrame

\* getAndIncrement (part_006:29-42), then writeContract is issued with the
\* nonce and the manager awaits it (part_008:410-435, 468-491).  loans records
\* the flashLoanPair, startToken and borrowAmount arguments of executeArbitrage.
Submit ==
    \E m \in Managers :
        /\ InLoop(m)
        /\ ~hasConflict(managers[m].usedPairs, CurrentOpp(m).pairs)
        /\ ~ThrowsBeforeSubmit(CurrentOpp(m))
        /\ currentNonce < MaxNonce
        /\ currentNonce' = currentNonce + 1
        /\ nonceLog' = [op |-> "take", nonce |-> currentNonce,
                         prevMax |-> IF nonceLog.op = "take"
                                     THEN Max(nonceLog.nonce, nonceLog.prevMax)
                                     ELSE NullNonce]
        /\ managers' = [managers EXCEPT
               ![m].pc = "write", ![m].nonce = currentNonce,
               ![m].issued = @ \cup {managers[m].sorted[managers[m].idx]},
               ![m].flashswap = IF isCircular(CurrentOpp(m))
                                THEN @ \cup {managers[m].sorted[managers[m].idx]} ELSE @,
               ![m].direct = IF isCircular(CurrentOpp(m))
                             THEN @ ELSE @ \cup {managers[m].sorted[managers[m].idx]},
               ![m].loans = IF isCircular(CurrentOpp(m))
                            THEN @ \cup {[opp |-> managers[m].sorted[managers[m].idx],
                                          flashLoanPair |-> flashLoanPair(CurrentOpp(m)).pairAddress,
                                          startToken |-> CurrentOpp(m).path[1],
                                          borrowAmount |-> CurrentOpp(m).optimalAmount]}
                            ELSE @]
        /\ UNCHANGED <<chainCount, mempool>>
        /\ SchedFrame

\* writeContract returns a hash: the node accepted the transaction.  A nonce
\* below the account's transaction count is never accepted.
WriteReturns ==
    \E m \in Managers :
        /\ managers[m].pc = "write"
        /\ managers[m].nonce >= chainCount
        /\ mempool' = mempool \cup {managers[m].nonce}
        /\ managers' = [managers EXCEPT ![m].pc = "notify"]
        /\ UNCHANGED <<currentNonce, chainCount, nonceLog>>
        /\ SchedFrame

\* writeContract throws; the catch of processOpportunities logs the error.
WriteThrows ==
    \E m \in Managers :
        /\ managers[m].pc = "write"
        /\ managers' = [managers EXCEPT
               ![m] = Caught(managers[m], managers[m].sorted[managers[m].idx])]
        /\ UNCHANGED <<currentNonce, chainCount, mempool, nonceLog>>
        /\ SchedFrame

\* sendTransactionNotification returns (it catches its own errors,
\* src/src/Notify.ts:45-52); then markPairsAsUsed (part_008:343).
NotifyReturns ==
    \E m \in Managers :
        /\ managers[m].pc = "notify"
        /\ managers' = [managers EXCEPT
                ![m].pc = "loop", ![m].idx = @ + 1, ![m].nonce = NullNonce,
                ![m].usedPairs = markPairsAsUsed(@, CurrentOpp(m).pairs),
                ![m].done = @ \cup {managers[m].sorted[managers[m].idx]}]
        /\ UNCHANGED <<currentNonce, chainCount, mempool, nonceLog>>
        /\ SchedFrame

\* this.usedPairs.clear() after the loop (part_008:358).
EndBatch ==
    \E m \in Managers :
        /\ managers[m].pc = "loop" /\ managers[m].idx > Len(managers[m].sorted)
        /\ managers' = [managers EXCEPT ![m] = IdleManager]
        /\ UNCHANGED <<currentNonce, chainCount, mempool, nonceLog>>
        /\ SchedFrame

\* The chain mines the accepted transaction that carries the next nonce.
Mine ==
    /\ chainCount \in mempool
    /\ chainCount' = chainCount + 1
    /\ mempool' = mempool \ {chainCount}
    /\ UNCHANGED <<managers, currentNonce, nonceLog>>
    /\ SchedFrame

NextSched ==
    \/ Initialize \/ ProcessOpportunities \/ SkipConflict \/ ThrowBeforeSubmit
    \/ Submit \/ WriteReturns \/ WriteThrows \/ NotifyReturns \/ EndBatch \/ Mine

SpecSched == InitSched /\ [][NextSched]_vars

-----------------------------------------------------------------------------
(* EventMonitor.handleSyncEvents / processUpdates (src/src/event.ts:195-    *)
(* 250).  A handleSyncEvents call that finds the flag clear starts a chain  *)
(* of processUpdates activations: the innermost one awaits                  *)
(* checkArbitrageOpportunities ("check"), and each outer one awaits the     *)
(* nested processUpdates it made for the pending updates; once the nested   *)
(* call has returned the outer one is about to resume ("unwind").           *)

\* The graph the monitor watches, and the valid updates the Sync logs carry.
MonSnapshot == << PairInfo("p4", 1, 1), PairInfo("p5", 1, 1) >>
MonUpdates == {Update("p4", 1, MaxReserve), Update("p4", MaxReserve, 1)}

PassInProgress(cs) == \E i \in DOMAIN cs : cs[i].pc = "check"
Remove(cs, i) == SubSeq(cs, 1, i - 1) \o SubSeq(cs, i + 1, Len(cs))
RECURSIVE Suspended(_)
Suspended(cs) == IF cs = <<>> THEN 0 ELSE Head(cs).depth + Suspended(Tail(cs))

\* The test of the queue after the awaited check (line 232).
NeverPending(q) == FALSE
HasPending(q) == Len(q) > 0

\* Activations are counted up to MaxCalls.  A delivery that would leave no
\* room for the nested call of a flush is not taken, so the bound never stands
\* in the way of a flush.
RoomForCall == Suspended(calls) + (IF HasPending(pendingUpdates) THEN 1 ELSE 0) < MaxCalls
RoomForFlush == Suspended(calls) < MaxCalls

InitMon ==
    LET G == BuildGraph(EmptyGraph, MonSnapshot)
    IN /\ graph = G.graph
       /\ tokens = G.tokens
       /\ pairs = G.pairs
       /\ edgeIndex = G.edgeIndex
       /\ tokenToHighestReservePair = G.best
       /\ lastOp = NoOp
       /\ SearchIdle
       /\ SchedIdle
       /\ isCheckingArbitrage = FALSE
       /\ pendingUpdates = <<>>
       /\ calls = <<>>
       /\ lastMon = NoOp
       /\ delivered = [p \in DOMAIN G.pairs |->
                          [reserve0 |-> G.pairs[p].reserve0, reserve1 |-> G.pairs[p].reserve1]]
       /\ TransportIdle

MonFrame == UNCHANGED <<lastOp, searchVars, schedVars, transportVars>>

\* handleSyncEvents from line 195 on, with the valid updates of the logs: they
\* are queued if the flag is set; otherwise processUpdates runs up to its await
\* of checkArbitrageOpportunities (lines 210-229).
Deliver(updates) ==
    /\ lastMon' = [op |-> "deliver", n |-> Len(updates), updates |-> updates,
                    during |-> PassInProgress(calls),
                    queued |-> isCheckingArbitrage]
    /\ IF isCheckingArbitrage
       THEN /\ Len(pendingUpdates) + Len(updates) <= MaxUpdates
            /\ RoomForFlush
            /\ pendingUpdates' = pendingUpdates \o updates
            /\ UNCHANGED <<graphVars, isCheckingArbitrage, calls>>
       ELSE IF updates = <<>>
       THEN UNCHANGED <<graphVars, isCheckingArbitrage, pendingUpdates, calls>>
       ELSE /\ RoomForCall
            /\ SetGraph(updatePairReservesBatch(GraphNow, updates))
            /\ isCheckingArbitrage' = TRUE
            /\ calls' = Append(calls, [depth |-> 1, pc |-> "check"])
            /\ UNCHANGED pendingUpdates

\* The reserves last delivered for each pool, after one more delivery.
Latest(d, updates) ==
    [p \in DOMAIN d |->
        LET named == {k \in DOMAIN updates : updates[k].pairAddress = p}
        IN IF named = {} THEN d[p]
           ELSE LET k == CHOOSE k \in named : \A j \in named : j <= k
                IN [reserve0 |-> updates[k].reserve0, reserve1 |-> updates[k].reserve1]]

HandleSyncEvents ==
    \E updates \in SeqsUpTo(MonUpdates, MaxBatch) :
        /\ Deliver(updates)
        /\ delivered' = Latest(delivered, updates)
        /\ MonFrame

\* checkArbitrageOpportunities has returned and the pending updates are
\* handed to a nested processUpdates, which runs up to its own await of
\* checkArbitrageOpportunities (lines 232-235, 210-229).
Flush(i) ==
    /\ calls[i].pc = "check"
    /\ HasPending(pendingUpdates)
    /\ RoomForFlush
    /\ lastMon' = [op |-> "flush", n |-> Len(pendingUpdates),
                    updates |-> pendingUpdates,
                    during |-> PassInProgress(Remove(calls, i)),
                    queued |-> FALSE]
    /\ pendingUpdates' = <<>>
    /\ SetGraph(updatePairReservesBatch(GraphNow, pendingUpdates))
    /\ isCheckingArbitrage' = TRUE
    /\ calls' = [calls EXCEPT ![i].depth = @ + 1]

FlushPending ==
    \E i \in DOMAIN calls :
        /\ Flush(i)
        /\ UNCHANGED delivered
        /\ MonFrame

\* checkArbitrageOpportunities has returned and nothing is pending: the
\* finally clause clears the flag and processUpdates returns (lines 232, 238-
\* 240).
Returns(i) ==
    /\ calls[i].pc = "check"
    /\ ~HasPending(pendingUpdates)
    /\ isCheckingArbitrage' = FALSE
    /\ calls' = IF calls[i].depth = 1 THEN Remove(calls, i)
                 ELSE [calls EXCEPT ![i] = [depth |-> @.depth - 1, pc |-> "unwind"]]
    /\ lastMon' = NoOp
    /\ UNCHANGED <<graphVars, pendingUpdates>>

CheckReturns ==
    \E i \in DOMAIN calls :
        /\ Returns(i)
        /\ UNCHANGED delivered
        /\ MonFrame

\* An outer processUpdates resumes after its nested call: its finally clause
\* clears the flag and it returns (lines 235-240).
Resumes(i) ==
    /\ calls[i].pc = "unwind"
    /\ isCheckingArbitrage' = FALSE
    /\ calls' = IF calls[i].depth = 1 THEN Remove(calls, i)
                 ELSE [calls EXCEPT ![i].depth = @ - 1]
    /\ lastMon' = NoOp
    /\ UNCHANGED <<graphVars, pendingUpdates>>

Unwind ==
    \E i \in DOMAIN calls :
        /\ Resumes(i)
        /\ UNCHANGED delivered
        /\ MonFrame

NextMon == HandleSyncEvents \/ FlushPending \/ CheckReturns \/ Unwind

SpecMon == InitMon /\ [][NextMon]_vars

\* The awaited checkArbitrageOpportunities always settles (it catches what
\* the search throws, lines 243-250), and so does a nested processUpdates:
\* every suspended activation is resumed.
SpecMonLive ==
    SpecMon /\ WF_vars(FlushPending) /\ WF_vars(CheckReturns) /\ WF_vars(Unwind)

-----------------------------------------------------------------------------
(* The monitor with the scheduler behind it: checkArbitrageOpportunities    *)
(* calls findAndLogArbitrageOpportunities (src/src/event.ts:243-250), which *)
(* runs the search and hands what it found to a new OpportunityManager      *)
(* without awaiting processOpportunities (src/src/opp.ts:15-40).  The       *)
(* search itself is SpecSearch and SpecValidate; here its result is an      *)
(* input of the pass.                                                       *)

\* What a search pass finds: nothing, or the one opportunity C.
PassResults == {<<>>, <<"C">>}

\* The Sync logs of one delivery carry one valid update.
PipelineDeliveries == {<<u>> : u \in MonUpdates}

\* findAndLogArbitrageOpportunities from line 20 on: if anything was found, a
\* new manager starts processOpportunities, which runs up to its first await.
findAndLogArbitrageOpportunities(found) ==
    IF found = <<>> THEN UNCHANGED managers
    ELSE LET free == {m \in Managers : managers[m].pc = "idle"}
         IN /\ free # {}
            /\ managers' = [managers EXCEPT ![CHOOSE m \in free : TRUE] =
                    [IdleManager EXCEPT !.pc = "loop", !.sorted = sortedOpps(found)]]

InitPipeline ==
    LET G == BuildGraph(EmptyGraph, SchedSnapshot)
    IN /\ graph = G.graph
       /\ tokens = G.tokens
       /\ pairs = G.pairs
       /\ edgeIndex = G.edgeIndex
       /\ tokenToHighestReservePair = G.best
       /\ lastOp = NoOp
       /\ SearchIdle
       /\ managers = [m \in Managers |-> IdleManager]
       /\ currentNonce = NullNonce
       /\ chainCount = 0
       /\ mempool = {}
       /\ nonceLog = NoOp
       /\ MonIdle

PipelineFrame ==
    UNCHANGED <<lastOp, searchVars, transportVars, delivered, currentNonce, chainCount, mempool,
                nonceLog>>

\* handleSyncEvents; when it starts a pass, the pass runs the search and may
\* start a batch.
SyncEvents ==
    \E updates \in PipelineDeliveries : \E found \in PassResults :
        /\ Deliver(updates)
        /\ IF ~isCheckingArbitrage /\ updates # <<>>
           THEN findAndLogArbitrageOpportunities(found)
           ELSE found = <<>> /\ UNCHANGED managers
        /\ PipelineFrame

\* The pending updates are flushed into a nested processUpdates, whose pass
\* runs the search and may start a batch.
PendingFlushed ==
    \E i \in DOMAIN calls : \E found \in PassResults :
        /\ Flush(i)
        /\ findAndLogArbitrageOpportunities(found)
        /\ PipelineFrame

\* checkArbitrageOpportunities returns with nothing pending.
PassReturns ==
    \E i \in DOMAIN calls :
        /\ Returns(i)
        /\ UNCHANGED managers
        /\ PipelineFrame

\* An outer processUpdates resumes after its nested call.
OuterResumes ==
    \E i \in DOMAIN calls :
        /\ Resumes(i)
        /\ UNCHANGED managers
        /\ PipelineFrame

\* The steps of the managers are those of SpecSched.  A batch of one
\* opportunity meets no conflict, and no block is mined while the passes run.
NextPipeline ==
    \/ SyncEvents \/ PendingFlushed \/ PassReturns \/ OuterResumes
    \/ Initialize \/ ThrowBeforeSubmit \/ Submit \/ WriteReturns
    \/ WriteThrows \/ NotifyReturns \/ EndBatch

SpecPipeline == InitPipeline /\ [][NextPipeline]_vars

-----------------------------------------------------------------------------
(* calculateMaxProfit and its profit functions (graph.ts:740-890).  The    *)
(* Newton iteration works on signed numbers and on -Infinity; a signed     *)
(* number is the same record with a negative mantissa.                      *)

NegInfinity == [m |-> -1, e |-> 0]
Zero == [m |-> 0, e |-> 0]
Abs(n) == IF n < 0 THEN -n ELSE n
Neg(a) == [m |-> -a.m, e |-> a.e]
SNorm(m, e) == IF m < 0 THEN Neg(Norm(-m, e)) ELSE Norm(m, e)
SMul(a, b) == SNorm(a.m * b.m, a.e + b.e)
SDiv(a, b) ==
    LET q == FDiv([m |-> Abs(a.m), e |-> a.e], [m |-> Abs(b.m), e |-> b.e])
    IN IF (a.m < 0) = (b.m < 0) THEN q ELSE Neg(q)
SAdd(a, b) ==
    IF a.m = 0 THEN b
    ELSE IF b.m = 0 THEN a
    ELSE IF a.e >= b.e
         THEN IF a.e - b.e > 4 THEN a ELSE SNorm(a.m * Pow10(a.e - b.e) + b.m, b.e)
         ELSE IF b.e - a.e > 4 THEN b ELSE SNorm(b.m * Pow10(b.e - a.e) + a.m, a.e)
SSub(a, b) == SAdd(a, Neg(b))
\* a < b, also for -Infinity
SLess(a, b) ==
    IF b = NegInfinity THEN FALSE
    ELSE IF a = NegInfinity THEN TRUE
    ELSE SSub(b, a).m > 0
SAbs(a) == [m |-> Abs(a.m), e |-> a.e]
SMax(a, b) == IF SLess(a, b) THEN b ELSE a

\* Number(bigint) of a reserve.  The model stores a reserve as a count of
\* 10^unit base units (unit 0: the raw amounts; unit 18: whole tokens of 18
\* decimals, the amounts Sync events carry).
ToNumber(reserve, unit) == Norm(reserve, unit)

\* let inputAmount = 9e18; const tolerance = 1e-8; const maxIterations = 100
SeedInput == Norm(9, 18)
Tolerance == Norm(1, -8)
maxIterations == 100
\* Number(minProfit), minProfit = parseEther("0.05")
minProfit == Norm(5, 16)

\* createProfitFunctions, lines 797-815: per hop the reserves in the direction
\* of the hop and the effective fee.
HopFee(direction, pair) ==
    IF direction = "token0ToToken1"
    THEN (IF pair.isToken0 THEN pair.fee + pair.sellFeeBps ELSE pair.fee + pair.buyFeeBps)
    ELSE (IF pair.isToken0 THEN pair.fee + pair.buyFeeBps ELSE pair.fee + pair.sellFeeBps)
Hops(opportunity, prs, unit) ==
    [i \in DOMAIN opportunity.pairs |->
        LET pair == prs[opportunity.pairs[i]]
            forward == opportunity.directions[i] = "token0ToToken1"
        IN [reserveIn |-> ToNumber(IF forward THEN pair.reserve0 ELSE pair.reserve1, unit),
            reserveOut |-> ToNumber(IF forward THEN pair.reserve1 ELSE pair.reserve0, unit),
            effectiveFee |-> HopFee(opportunity.directions[i], pair)]]

feeMultiplier(hop) == SSub(Num(1), SDiv(Num(hop.effectiveFee), Num(10000)))
swap(amountIn, hop) ==
    LET amountInAfterFee == SMul(amountIn, feeMultiplier(hop))
    IN SDiv(SMul(amountInAfterFee, hop.reserveOut), SAdd(hop.reserveIn, amountInAfterFee))
swapDerivative(amountIn, hop) ==
    LET d == SAdd(hop.reserveIn, SMul(feeMultiplier(hop), amountIn))
    IN SDiv(SMul(SMul(feeMultiplier(hop), hop.reserveIn), hop.reserveOut), SMul(d, d))
swapSecondDerivative(amountIn, hop) ==
    LET fm == feeMultiplier(hop)
        d == SAdd(hop.reserveIn, SMul(fm, amountIn))
    IN SDiv(SMul(SMul(SMul(Neg(Num(2)), SMul(fm, fm)), hop.reserveIn), hop.reserveOut),
            SMul(SMul(d, d), d))

\* The amounts entering the hops: Amounts(hops, x)[i] enters hop i, and the
\* last element leaves the last hop.
RECURSIVE AmountsFrom(_, _, _)
AmountsFrom(hops, i, amount) ==
    IF i > Len(hops) THEN <<amount>>
    ELSE <<amount>> \o AmountsFrom(hops, i + 1, swap(amount, hops[i]))
Amounts(hops, inputAmount) == AmountsFrom(hops, 1, inputAmount)
\* if (amount > reserveIns[i]) return ...
Infeasible(hops, amounts) ==
    \E i \in DOMAIN hops : SLess(hops[i].reserveIn, amounts[i])

calculateProfit(hops, inputAmount) ==
    LET amounts == Amounts(hops, inputAmount)
    IN IF Infeasible(hops, amounts) THEN NegInfinity
       ELSE SSub(amounts[Len(hops) + 1], inputAmount)

\* acc *= factors[j] for every j from j on, except j = skip
RECURSIVE MulFrom(_, _, _, _)
MulFrom(acc, factors, j, skip) ==
    IF j > Len(factors) THEN acc
    ELSE MulFrom(IF j = skip THEN acc ELSE SMul(acc, factors[j]), factors, j + 1, skip)

calculateJacobian(hops, inputAmount) ==
    LET amounts == Amounts(hops, inputAmount)
        derivatives == [i \in DOMAIN hops |-> swapDerivative(amounts[i], hops[i])]
    IN IF Infeasible(hops, amounts) THEN Zero
       ELSE SSub(MulFrom(Num(1), derivatives, 1, 0), Num(1))

\* acc += terms[i] for every i from i on
RECURSIVE SumFrom(_, _, _)
SumFrom(acc, terms, i) ==
    IF i > Len(terms) THEN acc ELSE SumFrom(SAdd(acc, terms[i]), terms, i + 1)

calculateHessian(hops, inputAmount) ==
    LET amounts == Amounts(hops, inputAmount)
        derivatives == [i \in DOMAIN hops |-> swapDerivative(amounts[i], hops[i])]
        secondDerivatives == [i \in DOMAIN hops |-> swapSecondDerivative(amounts[i], hops[i])]
        terms == [i \in DOMAIN hops |-> MulFrom(secondDerivatives[i], derivatives, 1, i)]
    IN IF Infeasible(hops, amounts) THEN Zero ELSE SumFrom(Zero, terms, 1)

\* The loop of calculateMaxProfit, from iteration i on.
\* The locals of calculateMaxProfit at loop entry (graph.ts:754-758).
NewtonStart ==
    [i |-> 0, inputAmount |-> SeedInput, maxProfit |-> NegInfinity, optimalInput |-> Zero]

newInputAmount(hops, st) ==
    SSub(st.inputAmount,
         SDiv(calculateJacobian(hops, st.inputAmount), calculateHessian(hops, st.inputAmount)))

\* The loop is left: the iteration cap, `if (hessian === 0) break`, or
\* `if (Math.abs(newInputAmount - inputAmount) < tolerance) break`.
LoopEnds(hops, st) ==
    IF st.i >= maxIterations THEN TRUE
    ELSE IF calculateHessian(hops, st.inputAmount).m = 0 THEN TRUE
    ELSE SLess(SAbs(SSub(newInputAmount(hops, st), st.inputAmount)), Tolerance)

\* One pass through the loop body that reaches its end (graph.ts:760-776).
NewtonBody(hops, st) ==
    LET profit == calculateProfit(hops, st.inputAmount)
        next == SMax(Zero, newInputAmount(hops, st))
    IN [i |-> st.i + 1,
        inputAmount |-> next,
        maxProfit |-> IF SLess(st.maxProfit, profit) THEN profit ELSE st.maxProfit,
        optimalInput |-> IF SLess(st.maxProfit, profit) THEN next ELSE st.optimalInput]

-----------------------------------------------------------------------------
(* The validation of the raw candidates at the end of                      *)
(* findArbitrageOpportunities (graph.ts:715-738).                           *)

MaxRaw == 3             \* raw candidates handed to the validation
TopN == 2               \* .slice(0, 20), scaled down to the candidates of a small graph

\* The graph the candidates run through: the three-pool scenario and two more
\* (taxed) USDC/ETH pools.
ValSnapshot == Scenario \o << PairInfo("p4", 900, 5), PairInfo("p5", 6, 1000) >>

Fwd == "token0ToToken1"
Bwd == "token1ToToken0"
\* Raw candidates of a search from USDC on that graph: the triangle through
\* each of the three USDC/ETH pools, the triangle backwards, and a path to the
\* secondary token.
Candidates ==
    << [path |-> <<"USDC", "ETH", "BTC", "USDC">>, pairs |-> <<"p1", "p2", "p3">>,
        directions |-> <<Fwd, Fwd, Fwd>>],
       [path |-> <<"USDC", "ETH", "BTC", "USDC">>, pairs |-> <<"p4", "p2", "p3">>,
        directions |-> <<Fwd, Fwd, Fwd>>],
       [path |-> <<"USDC", "ETH", "BTC", "USDC">>, pairs |-> <<"p5", "p2", "p3">>,
        directions |-> <<Bwd, Fwd, Fwd>>],
       [path |-> <<"USDC", "BTC", "ETH", "USDC">>, pairs |-> <<"p3", "p2", "p1">>,
        directions |-> <<Bwd, Bwd, Bwd>>],
       [path |-> <<"USDC", "BTC", "ETH">>, pairs |-> <<"p3", "p2">>,
        directions |-> <<Bwd, Bwd>>] >>
InSet(S, i) == i \in S
RawLists ==
    {[k \in 1..Cardinality(S) |->
        Candidates[SelectSeq([i \in DOMAIN Candidates |-> i], LAMBDA i : InSet(S, i))[k]]] :
        S \in {T \in SUBSET DOMAIN Candidates : Cardinality(T) <= MaxRaw}}

InitValidate ==
    \E raw \in RawLists, unit \in {0, 18} :
        LET G == BuildGraph(EmptyGraph, ValSnapshot)
        IN /\ graph = G.graph
           /\ tokens = G.tokens
           /\ pairs = G.pairs
           /\ edgeIndex = G.edgeIndex
           /\ tokenToHighestReservePair = G.best
           /\ lastOp = NoOp
           /\ search = [pc |-> "validate", unit |-> unit, again |-> FALSE]
           /\ dp = <<>>
           /\ work = <<>>
           /\ rawOpportunities = raw
           /\ lastExt = NoOp
           /\ validated = <<>>
           /\ result = NoOp
           /\ newton = NoOp
           /\ reported = <<>>
           /\ signature = NoOp
           /\ SchedIdle
           /\ MonIdle

ValidateFrame == UNCHANGED <<graphVars, lastOp, dp, work, rawOpportunities, lastExt,
                             signature, schedVars, monVars>>

CurrentCandidate == rawOpportunities[Len(validated) + 1]
CurrentHops == Hops(CurrentCandidate, pairs, search.unit)

\* .map(opp => { ... this.calculateMaxProfit(opp) ... }) enters calculateMaxProfit
\* for the next candidate.
CalculateMaxProfit ==
    /\ search.pc = "validate"
    /\ newton = NoOp
    /\ Len(validated) < Len(rawOpportunities)
    /\ newton' = NewtonStart
    /\ UNCHANGED <<search, validated, result, reported>>
    /\ ValidateFrame

\* for (let i = 0; i < maxIterations; i++) { ... }: one iteration
NewtonIteration ==
    /\ search.pc = "validate"
    /\ newton # NoOp
    /\ ~LoopEnds(CurrentHops, newton)
    /\ newton' = NewtonBody(CurrentHops, newton)
    /\ UNCHANGED <<search, validated, result, reported>>
    /\ ValidateFrame

\* return { maxProfit, optimalInput }, and the map's
\* return { ...opp, profit: maxProfit, optimalInput }
MaxProfitReturns ==
    /\ search.pc = "validate"
    /\ newton # NoOp
    /\ LoopEnds(CurrentHops, newton)
    /\ validated' = Append(validated,
           [path |-> CurrentCandidate.path, pairs |-> CurrentCandidate.pairs,
            directions |-> CurrentCandidate.directions,
            profit |-> newton.maxProfit, optimalInput |-> newton.optimalInput])
    /\ newton' = NoOp
    /\ UNCHANGED <<search, result, reported>>
    /\ ValidateFrame

\* .filter(opp => opp.profit > Number(minProfit))
MoreThanMinProfit(opp) == SLess(minProfit, opp.profit)
\* .sort((a, b) => b.profit - a.profit): stable, descending
RECURSIVE InsertByProfitDesc(_, _)
InsertByProfitDesc(sorted, x) ==
    IF sorted = <<>> THEN <<x>>
    ELSE IF SLess(Head(sorted).profit, x.profit) THEN <<x>> \o sorted
    ELSE <<Head(sorted)>> \o InsertByProfitDesc(Tail(sorted), x)
RECURSIVE SortByProfitDesc(_, _)
SortByProfitDesc(sorted, rest) ==
    IF rest = <<>> THEN sorted
    ELSE SortByProfitDesc(InsertByProfitDesc(sorted, Head(rest)), Tail(rest))
\* .slice(0, 20)
TakeAll(opps) == opps
Slice(opps) == SubSeq(opps, 1, IF Len(opps) < TopN THEN Len(opps) ELSE TopN)

\* The object returned at lines 725-737; the fees lookup throws on a pool that
\* is not registered.
ResultOf(v, prs) ==
    IF \E i \in DOMAIN v : \E j \in DOMAIN v[i].pairs : v[i].pairs[j] \notin DOMAIN prs
    THEN [op |-> "throw"]
    ELSE [op |-> "return",
          paths |-> [i \in DOMAIN v |-> v[i].path],
          pairs |-> [i \in DOMAIN v |-> v[i].pairs],
          profits |-> [i \in DOMAIN v |-> v[i].profit],
          optimalAmounts |-> [i \in DOMAIN v |-> v[i].optimalInput],
          fees |-> [i \in DOMAIN v |->
                      [j \in DOMAIN v[i].pairs |-> prs[v[i].pairs[j]].fee]]]

\* filter, sort, slice and return
ReturnResult ==
    /\ search.pc = "validate"
    /\ newton = NoOp
    /\ Len(validated) = Len(rawOpportunities)
    /\ search' = [search EXCEPT !.pc = "done"]
    /\ result' = ResultOf(Slice(SortByProfitDesc(<<>>,
                               SelectSeq(validated, MoreThanMinProfit))), pairs)
    /\ UNCHANGED <<validated, newton, reported>>
    /\ ValidateFrame

\* A further call of findArbitrageOpportunities with the same arguments on the
\* unchanged graph: the search (graph.ts:631-713) reads nothing but the graph
\* and its arguments, so it hands the same raw candidates to the validation.
SearchAgain ==
    /\ search.pc = "done"
    /\ result.op = "return"
    /\ ~search.again
    /\ search' = [search EXCEPT !.pc = "validate", !.again = TRUE]
    /\ reported' = reported \o result.pairs
    /\ validated' = <<>>
    /\ result' = NoOp
    /\ UNCHANGED newton
    /\ ValidateFrame

NextValidate ==
    CalculateMaxProfit \/ NewtonIteration \/ MaxProfitReturns \/ ReturnResult \/ SearchAgain

SpecValidate == InitValidate /\ [][NextValidate]_vars

-----------------------------------------------------------------------------
(* generateSignature of the ArbitrageDetector (test.ts:59-62).              *)

MaxSigLen == 3          \* length of the pool lists handed to generateSignature

\* Addresses are strings; Array.prototype.sort without a comparator orders them
\* by UTF-16 code units, upper case before lower case.
CodeUnitOrder == <<"P1", "P2", "p1", "p2", "p3", "p4", "p5">>
\* The addresses of the pool lists handed to generateSignature.
SigAddrs == {"P1", "P2", "p1", "p2", "p3"}
CodeUnitRank(a) == CHOOSE i \in DOMAIN CodeUnitOrder : CodeUnitOrder[i] = a

\* [...new Set(pairs)]: the distinct elements in order of first occurrence
RECURSIVE SetSpread(_, _)
SetSpread(seen, rest) ==
    IF rest = <<>> THEN seen
    ELSE IF \E i \in DOMAIN seen : seen[i] = Head(rest)
         THEN SetSpread(seen, Tail(rest))
         ELSE SetSpread(Append(seen, Head(rest)), Tail(rest))
\* .sort()
RECURSIVE InsertByCodeUnits(_, _)
InsertByCodeUnits(sorted, a) ==
    IF sorted = <<>> THEN <<a>>
    ELSE IF CodeUnitRank(a) < CodeUnitRank(Head(sorted)) THEN <<a>> \o sorted
    ELSE <<Head(sorted)>> \o InsertByCodeUnits(Tail(sorted), a)
RECURSIVE SortStrings(_, _)
SortStrings(sorted, rest) ==
    IF rest = <<>> THEN sorted
    ELSE SortStrings(InsertByCodeUnits(sorted, Head(rest)), Tail(rest))
\* .join('|'): the string as the sequence of its parts
RECURSIVE Join(_)
Join(parts) ==
    IF Len(parts) <= 1 THEN parts
    ELSE <<Head(parts), "|">> \o Join(Tail(parts))

FirstSeenOrder(prs) == Join(SetSpread(<<>>, prs))
generateSignature(prs) == Join(SortStrings(<<>>, SetSpread(<<>>, prs)))

InitSignature ==
    /\ graph = EmptyGraph.graph
    /\ tokens = EmptyGraph.tokens
    /\ pairs = EmptyGraph.pairs
    /\ edgeIndex = EmptyGraph.edgeIndex
    /\ tokenToHighestReservePair = EmptyGraph.best
    /\ lastOp = NoOp
    /\ SearchIdle
    /\ SchedIdle
    /\ MonIdle

GenerateSignature ==
    \E prs \in SeqsUpTo(SigAddrs, MaxSigLen) :
        /\ signature' = [op |-> "generateSignature", pairs |-> prs,
                         signature |-> generateSignature(prs)]
        /\ UNCHANGED <<graphVars, lastOp, search, dp, work, rawOpportunities, lastExt,
                       validated, result, newton, reported, schedVars, monVars>>

NextSignature == GenerateSignature

SpecSignature == InitSignature /\ [][NextSignature]_vars

-----------------------------------------------------------------------------
(* EventMonitor.start / stop / restart / onError (src/src/event.ts:36-103,  *)
(* 252-331): the event subscription and its fallback from the WebSocket     *)
(* client to the HTTP client.  watchContractEvent returns the unwatch       *)
(* function or throws; every await is a point where other handlers run.     *)

MaxSubs == 3            \* subscriptions accepted by the clients over one run
MaxTasks == 2           \* start / onError activations suspended at an await at once

\* export const WSS_ENABLED = true (src/unnamed/part_007:115)
WSS_ENABLED == TRUE

\* The fields of the monitor that start and stop work on, with the
\* subscriptions held by the clients and the log.
MonitorNow ==
    [isRunning |-> isRunning, usingWebSocket |-> usingWebSocket, wsClient |-> wsClient,
     unwatchFn |-> unwatchFn, subscriptions |-> subscriptions, log |-> transportLog]

SetMonitor(M) ==
    /\ isRunning' = M.isRunning
    /\ usingWebSocket' = M.usingWebSocket
    /\ wsClient' = M.wsClient
    /\ unwatchFn' = M.unwatchFn
    /\ subscriptions' = M.subscriptions
    /\ transportLog' = M.log

\* const eventClient = this.usingWebSocket && this.wsClient ? this.wsClient : this.client
eventClient(M) == IF M.usingWebSocket /\ M.wsClient THEN "ws" ELSE "http"

\* start() up to its first await.  throws[1] tells whether the first call of
\* watchContractEvent throws, throws[2] the call of a nested start().  The
\* result is the monitor and the subscription whose unwatch function the
\* activation is about to store (NoSub when start has nothing left to do).
RECURSIVE start(_, _)
startNotRunning(M, throws) ==
    LET M1 == [M EXCEPT !.isRunning = TRUE]
        client == eventClient(M1)
        id == Cardinality(M1.subscriptions) + 1
    IN IF ~Head(throws)
       THEN [M |-> [M1 EXCEPT !.subscriptions =
                        @ \cup {[id |-> id, client |-> client, active |-> TRUE]}],
             awaits |-> id]
       ELSE LET M2 == [M1 EXCEPT !.log = IF client = "ws" THEN [@ EXCEPT !.wsFailed = TRUE]
                                                         ELSE [@ EXCEPT !.httpFailed = TRUE]]
            IN IF M1.usingWebSocket
               THEN start([M2 EXCEPT !.usingWebSocket = FALSE], Tail(throws))
               ELSE [M |-> [M2 EXCEPT !.isRunning = FALSE], awaits |-> NoSub]
start(M, throws) ==
    IF M.isRunning THEN [M |-> M, awaits |-> NoSub]
    ELSE startNotRunning(M, throws)

\* The tail of stop(), lines 268-282, on the fields it touches.
stopCleanup(M) ==
    [M EXCEPT !.wsClient = IF M.usingWebSocket /\ M.wsClient THEN FALSE ELSE @]

\* stop() up to its first await, lines 252-266: unwatchFn() ends the stored
\* subscription.  `awaits` tells whether stop is suspended at that call.
stop(M) ==
    IF ~M.isRunning THEN [M |-> M, awaits |-> FALSE, cleared |-> FALSE]
    ELSE LET M1 == [M EXCEPT !.isRunning = FALSE]
         IN IF M1.unwatchFn # NoSub
            THEN [M |-> [M1 EXCEPT !.subscriptions =
                            {IF s.id = M1.unwatchFn THEN [s EXCEPT !.active = FALSE] ELSE s :
                                s \in @}],
                  awaits |-> TRUE, cleared |-> FALSE]
            ELSE [M |-> stopCleanup(M1), awaits |-> FALSE, cleared |-> TRUE]

InitTransport ==
    \E configured \in BOOLEAN :
        /\ graph = EmptyGraph.graph
        /\ tokens = EmptyGraph.tokens
        /\ pairs = EmptyGraph.pairs
        /\ edgeIndex = EmptyGraph.edgeIndex
        /\ tokenToHighestReservePair = EmptyGraph.best
        /\ lastOp = NoOp
        /\ SearchIdle
        /\ SchedIdle
        /\ isCheckingArbitrage = FALSE
        /\ pendingUpdates = <<>>
        /\ calls = <<>>
        /\ lastMon = NoOp
        /\ delivered = <<>>
        \* the constructor, lines 36-49
        /\ networkConfig = [wsClient |-> configured]
        /\ isRunning = FALSE
        /\ wsClient = (WSS_ENABLED /\ configured)
        /\ usingWebSocket = (WSS_ENABLED /\ configured)
        /\ unwatchFn = NoSub
        /\ tasks = <<>>
        /\ subscriptions = {}
        /\ transportLog = [started |-> FALSE, wsFailed |-> FALSE, httpFailed |-> FALSE,
                           filterError |-> FALSE]

TransportFrame ==
    UNCHANGED <<graphVars, lastOp, searchVars, schedVars, isCheckingArbitrage, calls,
                lastMon, delivered, networkConfig>>

Throws == {<<a, b>> : a \in BOOLEAN, b \in BOOLEAN}

\* A start() activation goes on the list of suspended activations if it awaits
\* the result of watchContractEvent.
Suspend(ts, r) == IF r.awaits # NoSub THEN Append(ts, [pc |-> "watch", sub |-> r.awaits]) ELSE ts

\* await monitor.start() (src/index.ts:37)
Start ==
    \E throws \in Throws :
        /\ ~transportLog.started
        /\ Cardinality(subscriptions) < MaxSubs
        /\ LET r == start([MonitorNow EXCEPT !.log.started = TRUE], throws)
           IN /\ SetMonitor(r.M)
              /\ tasks' = Suspend(tasks, r)
        /\ UNCHANGED pendingUpdates
        /\ TransportFrame

\* start() resumes after `await eventClient.watchContractEvent(...)` and
\* stores the unwatch function (lines 86-89).
WatchResumes ==
    \E i \in DOMAIN tasks :
        /\ tasks[i].pc = "watch"
        /\ unwatchFn' = tasks[i].sub
        /\ tasks' = Remove(tasks, i)
        /\ UNCHANGED <<isRunning, usingWebSocket, wsClient, subscriptions, transportLog,
                       pendingUpdates>>
        /\ TransportFrame

\* The errors a client reports to onError, by what the tests of lines 305-326
\* find in their message.
ErrorKinds == {"websocket", "filter not found", "other"}

\* onError(error), called by a client for an active subscription, up to the
\* first await of the restart() it makes (lines 299-331, 285-286, 252-266).
OnError ==
    \E kind \in ErrorKinds : \E s \in subscriptions :
        /\ s.active
        /\ Len(tasks) < MaxTasks
        /\ IF (usingWebSocket /\ kind = "websocket") \/ kind = "filter not found"
           THEN LET M0 == IF usingWebSocket /\ kind = "websocket"
                          THEN [MonitorNow EXCEPT !.usingWebSocket = FALSE,
                                                  !.log.wsFailed = TRUE]
                          ELSE [MonitorNow EXCEPT !.log.filterError = TRUE]
                    r == stop(M0)
                IN /\ SetMonitor(r.M)
                   /\ tasks' = Append(tasks, [pc |-> IF r.awaits THEN "unwatch" ELSE "stopped",
                                              sub |-> NoSub])
                   /\ pendingUpdates' = IF r.cleared THEN <<>> ELSE pendingUpdates
           ELSE UNCHANGED <<isRunning, usingWebSocket, wsClient, unwatchFn, subscriptions,
                            transportLog, tasks, pendingUpdates>>
        /\ TransportFrame

\* stop() resumes after `await this.unwatchFn()` (lines 268-282).
StopResumes ==
    \E i \in DOMAIN tasks :
        /\ tasks[i].pc = "unwatch"
        /\ SetMonitor(stopCleanup(MonitorNow))
        /\ pendingUpdates' = <<>>
        /\ tasks' = [tasks EXCEPT ![i].pc = "stopped"]
        /\ TransportFrame

\* restart() resumes after `await this.stop()` and goes on to its timer
\* (lines 288-295).
RestartResumes ==
    \E i \in DOMAIN tasks :
        /\ tasks[i].pc = "stopped"
        /\ IF WSS_ENABLED /\ networkConfig.wsClient
           THEN wsClient' = TRUE /\ usingWebSocket' = TRUE
           ELSE UNCHANGED <<wsClient, usingWebSocket>>
        /\ tasks' = [tasks EXCEPT ![i].pc = "sleep"]
        /\ UNCHANGED <<isRunning, unwatchFn, subscriptions, transportLog, pendingUpdates>>
        /\ TransportFrame

\* The timer of restart() fires and restart() calls start() (line 296).
SleepEnds ==
    \E i \in DOMAIN tasks : \E throws \in Throws :
        /\ tasks[i].pc = "sleep"
        /\ Cardinality(subscriptions) < MaxSubs
        /\ LET r == start(MonitorNow, throws)
           IN /\ SetMonitor(r.M)
              /\ tasks' = Suspend(Remove(tasks, i), r)
        /\ UNCHANGED pendingUpdates
        /\ TransportFrame

NextTransport ==
    Start \/ WatchResumes \/ OnError \/ StopResumes \/ RestartResumes \/ SleepEnds

SpecTransport == InitTransport /\ [][NextTransport]_vars

-----------------------------------------------------------------------------
(* Properties of the graph *)

\* The positions of the edges of pool p on the adjacency list of token t.
EdgesAt(t, p) == {i \in DOMAIN graph[t] : graph[t][i].pairAddress = p}
HasZeroReserve(pair) == pair.reserve0 = 0 \/ pair.reserve1 = 0

\* C6: a registered pool whose stored (most recently supplied) reserves have a
\* zero on either side has no edge on any adjacency list.
C6_NoZeroReserveEdge ==
    \A p \in DOMAIN pairs :
        HasZeroReserve(pairs[p]) => \A t \in TokenAddrs : EdgesAt(t, p) = {}

\* C7: every adjacency list holds at most one edge per pool; a registered pool
\* has exactly one edge per direction and an unregistered pool none; and right
\* after addPair with non-zero reserves the two edges of that pool carry the
\* reserves of that call, also when the pool was registered before.
C7_OneEdgePairPerPool ==
    /\ \A p \in PoolAddrs, t \in TokenAddrs :
          Cardinality(EdgesAt(t, p)) =
              IF p \in DOMAIN pairs /\ t \in {pairs[p].token0, pairs[p].token1} THEN 1 ELSE 0
    /\ \A p \in DOMAIN pairs :
          /\ \A i \in EdgesAt(pairs[p].token0, p) :
                graph[pairs[p].token0][i].direction = "token0ToToken1"
                    /\ graph[pairs[p].token0][i].to = pairs[p].token1
          /\ \A i \in EdgesAt(pairs[p].token1, p) :
                graph[pairs[p].token1][i].direction = "token1ToToken0"
                    /\ graph[pairs[p].token1][i].to = pairs[p].token0
    /\ lastOp.op = "addPair" =>
          LET p == lastOp.pair
          IN /\ p \in DOMAIN pairs
             /\ \A i \in EdgesAt(PoolTokens[p][1], p) :
                   /\ graph[PoolTokens[p][1]][i].reserveIn = lastOp.r0
                   /\ graph[PoolTokens[p][1]][i].reserveOut = lastOp.r1
             /\ \A i \in EdgesAt(PoolTokens[p][2], p) :
                   /\ graph[PoolTokens[p][2]][i].reserveIn = lastOp.r1
                   /\ graph[PoolTokens[p][2]][i].reserveOut = lastOp.r0

\* C7 witness: addPair has just been called for a registered pool with other,
\* non-zero reserves, next to another registered pool sharing a token.
C7_Witness ==
    /\ lastOp.op = "addPair" /\ lastOp.again
    /\ DOMAIN pairs = GraphPools
    /\ Len(graph["ETH"]) = 2

-----------------------------------------------------------------------------
(* Properties of the search *)

NoRepeat(seq) == \A i, j \in 1..Len(seq) : i # j => seq[i] # seq[j]
Last(seq) == seq[Len(seq)]

\* C8: at every point of a search, no bucket dp[k][token] holds more than
\* MAX_ENTRIES_PER_TOKEN entries.
C8_BeamBound ==
    \A k \in 1..Len(dp) : \A i \in 1..Len(dp[k]) :
        Len(dp[k][i].entries) <= MAX_ENTRIES_PER_TOKEN

\* C8 witness: an extension has just been inserted into a bucket that was
\* already full, so an entry was dropped.
C8_Witness ==
    /\ lastExt.op = "extend" /\ lastExt.full
    /\ Len(MapGet(dp[search.step + 1], lastExt.to)) = MAX_ENTRIES_PER_TOKEN

\* C9: every partial path kept in the table and every raw candidate uses each
\* pool address at most once.
C9_PoolsUnique ==
    /\ \A k \in 1..Len(dp) : \A i \in 1..Len(dp[k]) : \A n \in 1..Len(dp[k][i].entries) :
          NoRepeat(dp[k][i].entries[n].pairs)
    /\ \A n \in 1..Len(rawOpportunities) : NoRepeat(rawOpportunities[n].pairs)

\* C9 witness: a finished search over a graph with parallel pools has emitted a
\* three-hop candidate (so two-hop paths were offered their own pools again).
C9_Witness ==
    /\ search.pc = "validate"
    /\ {"p1", "p4", "p5"} \subseteq DOMAIN pairs
    /\ \E n \in 1..Len(rawOpportunities) : Len(rawOpportunities[n].pairs) = 3

\* C10: an inserted extension is emitted exactly when 2 <= step <= maxDepth and
\* it ends at the start token or, in NERK mode, at ADDRESSES[1]; no candidate
\* ends at any other token; and the three-pool scenario with maxDepth 3 emits
\* USDC -> ETH -> BTC -> USDC.
C10_EmitAtSourceOrSecondaryOnly ==
    search.pc # "idle" =>
        /\ lastExt.op = "extend" =>
              (lastExt.emitted <=>
                  /\ 2 <= lastExt.step /\ lastExt.step <= search.maxDepth
                  /\ \/ lastExt.to = search.startToken
                     \/ (search.NERK /\ lastExt.to = nerkToken))
        /\ \A n \in 1..Len(rawOpportunities) :
              \/ Last(rawOpportunities[n].path) = search.startToken
              \/ (search.NERK /\ Last(rawOpportunities[n].path) = nerkToken)
        /\ ( /\ pairs = BuildGraph(EmptyGraph, Scenario).pairs
             /\ search.startToken = "USDC" /\ search.maxDepth = 3
             /\ search.pc = "validate" )
            => \E n \in 1..Len(rawOpportunities) :
                   rawOpportunities[n].path = <<"USDC", "ETH", "BTC", "USDC">>

-----------------------------------------------------------------------------
(* Properties of the scheduler *)

LowerPools(name) ==
    {toLowerCase(Opportunity(name).pairs[i]) : i \in DOMAIN Opportunity(name).pairs}
SharePool(a, b) == LowerPools(a) \cap LowerPools(b) # {}
InBatch(m) == {managers[m].sorted[i] : i \in DOMAIN managers[m].sorted}
Profit(name) == Opportunity(name).expectedProfit
\* The position of an opportunity in the sorted list of manager m.
Position(m, name) == CHOOSE i \in DOMAIN managers[m].sorted : managers[m].sorted[i] = name
BatchOver(m) == managers[m].pc = "loop" /\ managers[m].idx > Len(managers[m].sorted)

C4_NoncesStrictlyIncrease ==
    nonceLog.op = "take" => nonceLog.nonce > nonceLog.prevMax

\* The first and the last token of an opportunity's path are the same address,
\* whatever the capitalisation.
SameEnds(name) ==
    LET path == Opportunity(name).path
    IN toLowerCase(path[1]) = toLowerCase(path[Len(path)])

\* C18: an opportunity is submitted through the flash-loan call
\* executeArbitrage exactly when the first and last tokens of its path are
\* equal, compared case-insensitively, and through executeArbitrageDirect
\* exactly when they differ; none is submitted through both.
C18_RoutedByCircularity ==
    \A m \in DOMAIN managers :
        /\ managers[m].flashswap \cup managers[m].direct = managers[m].issued
        /\ managers[m].flashswap \cap managers[m].direct = {}
        /\ \A name \in managers[m].flashswap : SameEnds(name)
        /\ \A name \in managers[m].direct : ~SameEnds(name)

\* C18 witness: in one batch A, whose path ends at its start token spelt in
\* another case, went out as a flash-loan call and C, ending elsewhere, as a
\* direct call.
C18_Witness ==
    /\ "A" \in managers["m1"].flashswap
    /\ "C" \in managers["m1"].direct
    /\ Opportunity("A").path[1] # Opportunity("A").path[3]

\* C19: a throw while executing one opportunity is caught inside
\* processOpportunities: the call never rejects, the loop moves on to the next
\* opportunity of the sorted batch with usedPairs as it was, the batch ends
\* only after the last opportunity, and usedPairs is empty when the call
\* returns.
C19_ThrowCaughtBatchGoesOn ==
    [][\A m \in Managers :
          /\ managers'[m].pc # "rejected"
          /\ (managers[m].failed # managers'[m].failed /\ managers'[m].failed # {}) =>
                /\ managers'[m].pc = "loop"
                /\ managers'[m].sorted = managers[m].sorted
                /\ managers'[m].idx = managers[m].idx + 1
                /\ managers'[m].usedPairs = managers[m].usedPairs
          /\ (managers[m].pc # "idle" /\ managers'[m].pc = "idle") =>
                /\ managers[m].idx > Len(managers[m].sorted)
                /\ managers'[m].usedPairs = {}]_vars

\* C19 witness: D threw (no flash-loan pool outside its own pools), C, the
\* next of the batch, was executed afterwards, and the loop is at its end.
C19_Witness ==
    /\ managers["m1"].sorted = <<"D", "C">>
    /\ managers["m1"].failed = {"D"}
    /\ managers["m1"].done = {"C"}
    /\ managers["m1"].idx = 3 /\ managers["m1"].pc = "loop"
    /\ managers["m1"].usedPairs # {}

-----------------------------------------------------------------------------
(* Properties of the event monitor *)

\* C5: while a search pass is in progress every delivered reserve update is
\* appended to pendingUpdates and the graph is not mutated; queued updates are
\* applied only when no pass is in progress any more.
C5_UpdatesQueuedDuringPass ==
    /\ (lastMon.op = "deliver" /\ lastMon.during /\ lastMon.n > 0) => lastMon.queued
    /\ (lastMon.op = "flush") => ~lastMon.during

-----------------------------------------------------------------------------
(* Properties of the effective fees *)

TaxedToken(pair) == IF pair.isToken0 THEN pair.token0 ELSE pair.token1
UntaxedToken(pair) == IF pair.isToken0 THEN pair.token1 ELSE pair.token0

\* C14: for every registered pool, after addPair and after every edge
\* refresh, the edge leaving the taxed token (token0 when isToken0, otherwise
\* token1) carries fee + sellFeeBps and the opposite edge fee + buyFeeBps, and
\* the per-hop fee createProfitFunctions computes for a direction equals the
\* fee of the edge of that direction.
C14_EdgeFeesFollowTaxedSide ==
    \A p \in DOMAIN pairs :
        LET pair == pairs[p] IN
        /\ EdgesAt(TaxedToken(pair), p) # {}
        /\ EdgesAt(UntaxedToken(pair), p) # {}
        /\ \A i \in EdgesAt(TaxedToken(pair), p) :
              LET edge == graph[TaxedToken(pair)][i]
              IN /\ edge.fee = pair.fee + pair.sellFeeBps
                 /\ HopFee(edge.direction, pair) = edge.fee
        /\ \A i \in EdgesAt(UntaxedToken(pair), p) :
              LET edge == graph[UntaxedToken(pair)][i]
              IN /\ edge.fee = pair.fee + pair.buyFeeBps
                 /\ HopFee(edge.direction, pair) = edge.fee

\* C14 witness: both taxed pools are registered, one taxing its token0 and one
\* its token1, and addPair has just refreshed the edges of p5.
C14_Witness ==
    /\ lastOp.op = "addPair" /\ lastOp.again /\ lastOp.pair = "p5"
    /\ DOMAIN pairs = GraphPools
    /\ pairs["p5"].isToken0 /\ ~pairs["p4"].isToken0
    /\ \E i \in EdgesAt("ETH", "p5") : graph["ETH"][i].reserveIn = lastOp.r0

\* The reserves of every pool named in the updates are those of the last
\* update naming it.
AllApplied(prs, updates) ==
    \A k \in DOMAIN updates :
        (\A j \in DOMAIN updates : j > k => updates[j].pairAddress # updates[k].pairAddress) =>
            /\ prs[updates[k].pairAddress].reserve0 = updates[k].reserve0
            /\ prs[updates[k].pairAddress].reserve1 = updates[k].reserve1

\* C20: a delivery of n >= 1 valid updates arriving while no pass is in
\* progress makes one batch update carrying all n updates and starts exactly
\* one search pass; a flush applies all queued updates in one batch and starts
\* exactly one search pass; a delivery with no valid update applies nothing
\* and starts no search.
C20_OneBatchOnePass ==
    [][/\ (lastMon'.op = "deliver" /\ ~lastMon'.during /\ lastMon'.n >= 1) =>
             /\ AllApplied(pairs', lastMon'.updates)
             /\ calls' = Append(calls, [depth |-> 1, pc |-> "check"])
             /\ pendingUpdates' = pendingUpdates
       /\ lastMon'.op = "flush" =>
             /\ lastMon'.updates = pendingUpdates /\ pendingUpdates' = <<>>
             /\ AllApplied(pairs', lastMon'.updates)
             /\ Suspended(calls') = Suspended(calls) + 1
             /\ Len(calls') = Len(calls)
       /\ (lastMon'.op = "deliver" /\ lastMon'.n = 0) =>
             UNCHANGED <<graphVars, calls, pendingUpdates, isCheckingArbitrage>>]_vars

\* C20 witness: two updates of the same pool were delivered together while no
\* pass was in progress; the pool holds the reserves of the second and one
\* pass is running.
C20_Witness ==
    /\ lastMon.op = "deliver" /\ ~lastMon.during /\ lastMon.n = 2
    /\ lastMon.updates[1] # lastMon.updates[2]
    /\ pairs["p4"].reserve0 = lastMon.updates[2].reserve0
    /\ calls = <<[depth |-> 1, pc |-> "check"]>>

-----------------------------------------------------------------------------
(* Properties of findBestPairForToken *)

\* The current reserve of a token in a registered pool.
ReserveOfToken(p, token) ==
    IF pairs[p].token0 = token THEN pairs[p].reserve0 ELSE pairs[p].reserve1
\* The registered pools containing the token, outside excludePairs, whose
\* current reserve of the token exceeds 3 x amountIn.
EligiblePools(token, amountIn, excludePairs) ==
    {p \in DOMAIN pairs :
        /\ token \in {pairs[p].token0, pairs[p].token1}
        /\ \A i \in DOMAIN excludePairs : excludePairs[i] # p
        /\ ReserveOfToken(p, token) > 3 * amountIn}
ExcludeLists == {<<>>, <<"p4">>, <<"p5">>, <<"p4", "p5">>}

\* C13: findBestPairForToken returns the pool with the highest current
\* reserve of the token among the pools containing it that are not excluded,
\* provided that reserve exceeds 3 x amountIn, and null only when no
\* non-excluded pool containing the token meets that bound.
C13_BestNonExcludedPool ==
    \A token \in TokenAddrs, amountIn \in 0..MaxReserve, excludePairs \in ExcludeLists :
        LET found == findBestPairForToken(tokenToHighestReservePair, token, amountIn,
                                          excludePairs)
            eligible == EligiblePools(token, amountIn, excludePairs)
        IN IF eligible = {} THEN found = NullPair
           ELSE /\ found.pairAddress \in eligible
                /\ \A q \in eligible :
                       ReserveOfToken(found.pairAddress, token) >= ReserveOfToken(q, token)

-----------------------------------------------------------------------------
(* Properties of the profit solver and the validation *)

\* The smallest reserve-in over the hops of a candidate.
RECURSIVE MinOf(_, _, _)
MinOf(hops, i, least) ==
    IF i > Len(hops) THEN least
    ELSE MinOf(hops, i + 1, IF SLess(hops[i].reserveIn, least) THEN hops[i].reserveIn ELSE least)
MinReserveIn(opp) ==
    LET hops == Hops(opp, pairs, search.unit) IN MinOf(hops, 2, hops[1].reserveIn)

\* C11: for every candidate path, the optimalInput returned by
\* calculateMaxProfit never exceeds the smallest reserve-in over the hops of
\* the path.
C11_OptimalInputWithinReserves ==
    \A i \in DOMAIN validated :
        ~SLess(MinReserveIn(validated[i]), validated[i].optimalInput)

\* C12: in the three-pool scenario with reserves 1000/5, 10/1 and 1/20000,
\* calculateMaxProfit on USDC->ETH->BTC->USDC, run from the seed 9e18, returns
\* a positive maxProfit and an optimalInput below 1000, and the cycle passes
\* the filter of findArbitrageOpportunities.
C12_ScenarioCycleKept ==
    \A i \in DOMAIN validated :
        (search.unit = 0 /\ validated[i].pairs = <<"p1", "p2", "p3">>) =>
            /\ SLess(Zero, validated[i].profit)
            /\ SLess(validated[i].optimalInput, Num(1000))
            /\ MoreThanMinProfit(validated[i])

\* C17: findArbitrageOpportunities returns at most 20 opportunities (TopN in
\* the model), in non-increasing order of profit, each with a profit strictly
\* above the minimum-profit threshold, in parallel arrays of equal length; when
\* no candidate qualifies it returns empty arrays, and it does not throw.
C17_ReturnsRankedCappedList ==
    search.pc = "done" =>
        /\ result.op = "return"
        /\ Len(result.paths) <= TopN
        /\ Len(result.pairs) = Len(result.paths)
        /\ Len(result.profits) = Len(result.paths)
        /\ Len(result.optimalAmounts) = Len(result.paths)
        /\ Len(result.fees) = Len(result.paths)
        /\ \A i \in DOMAIN result.profits : SLess(minProfit, result.profits[i])
        /\ \A i, j \in DOMAIN result.profits :
              i < j => ~SLess(result.profits[i], result.profits[j])
        /\ (\A i \in DOMAIN validated : ~SLess(minProfit, validated[i].profit)) =>
              /\ result.paths = <<>> /\ result.pairs = <<>> /\ result.profits = <<>>
              /\ result.optimalAmounts = <<>> /\ result.fees = <<>>

\* C17 witness: three candidates qualified, handed over in ascending order of
\* profit next to none-qualifying ones; the two most profitable were returned,
\* the better one first.
C17_Witness ==
    /\ search.pc = "done"
    /\ Len(SelectSeq(validated, MoreThanMinProfit)) > TopN
    /\ SLess(validated[1].profit, validated[2].profit)
    /\ Len(result.paths) = TopN
    /\ SLess(result.profits[2], result.profits[1])
    /\ result.pairs[1] = <<"p5", "p2", "p3">>

-----------------------------------------------------------------------------
(* Properties of the signatures and of repeated searches *)

SetOf(seq) == {seq[i] : i \in DOMAIN seq}

\* C15: an opportunity whose canonical signature was returned earlier in the
\* same search or by an earlier search is not returned again: over repeated
\* searches on an unchanged graph no pool set is reported twice.
C15_NoPoolSetReportedTwice ==
    result.op = "return" =>
        /\ \A i \in DOMAIN result.pairs : \A j \in DOMAIN reported :
              generateSignature(result.pairs[i]) # generateSignature(reported[j])
        /\ \A i, j \in DOMAIN result.pairs :
              i # j => generateSignature(result.pairs[i]) # generateSignature(result.pairs[j])

\* C16: the signature depends only on the set of pool addresses: every pool
\* list with the same set of addresses as the one just signed (a permutation,
\* a rotation, with or without repeated entries) has the same signature.
C16_SignatureOfPoolSet ==
    signature.op = "generateSignature" =>
        \A other \in SeqsUpTo(SigAddrs, MaxSigLen) :
            SetOf(other) = SetOf(signature.pairs) =>
                generateSignature(other) = signature.signature

\* C16 witness: a list with a repeated entry, given against the sort order,
\* has been signed.
C16_Witness ==
    /\ signature.op = "generateSignature"
    /\ signature.pairs = <<"p2", "P1", "p2">>
    /\ signature.signature = <<"P1", "|", "p2">>

-----------------------------------------------------------------------------
(* Properties of the event subscription *)

\* The subscription whose unwatch function the monitor holds is an active
\* subscription at the HTTP client.
HttpSubscribed ==
    \E s \in subscriptions : s.id = unwatchFn /\ s.client = "http" /\ s.active

\* C21: once the WebSocket transport has failed (the subscription attempt of
\* start() threw, or onError received a websocket/connection error) and the
\* calls this set off have returned, the monitor is running on HTTP polling:
\* isRunning is true, usingWebSocket is false and the monitor holds an active
\* subscription obtained from the HTTP client.  (States in which the HTTP
\* client failed as well, or a filter error restarted the monitor, are left
\* out.)
C21_FallsBackToHttp ==
    ( /\ transportLog.wsFailed
      /\ ~transportLog.httpFailed /\ ~transportLog.filterError
      /\ tasks = <<>> )
        => (isRunning /\ ~usingWebSocket /\ HttpSubscribed)

-----------------------------------------------------------------------------
(* Properties of the monitor with the scheduler behind it *)

\* The manager has issued writeContract for an opportunity and awaits it.
Outstanding(ms, m) == ms[m].pc = "write"
InFlight(ms, m) == ms[m].sorted[ms[m].idx]

\* C22: while a batch started by one search pass has a submission
\* outstanding, no reserve update is applied to the graph and no second
\* processOpportunities batch is started, and two executions in flight never
\* touch the same pool.
C22_PassesAndBatchesSerialized ==
    [][/\ pairs' # pairs => \A m \in Managers : ~Outstanding(managers, m)
       /\ (\E m \in Managers : managers[m].pc = "idle" /\ managers'[m].pc = "loop") =>
              \A n \in Managers : ~Outstanding(managers, n)
       /\ \A m, n \in Managers :
              (m # n /\ Outstanding(managers', m) /\ Outstanding(managers', n)) =>
                  ~SharePool(InFlight(managers', m), InFlight(managers', n))]_vars

-----------------------------------------------------------------------------
(* Properties of the passes of the monitor *)

\* The processUpdates activations awaiting checkArbitrageOpportunities.
Passes(cs) == {i \in DOMAIN cs : cs[i].pc = "check"}

\* C23: at most one search pass is in progress at any time, and
\* isCheckingArbitrage is true for as long as a pass is in progress: no finally
\* clause of a nested or an earlier processUpdates call clears it under a
\* running pass.
C23_OnePassFlagHeld ==
    /\ Cardinality(Passes(calls)) <= 1
    /\ PassInProgress(calls) => isCheckingArbitrage

\* C24: reserve updates are applied in the order handleSyncEvents received
\* them, so that once every delivery has been processed (no processUpdates
\* call is active and nothing is pending) every pool holds the reserves of the
\* last update delivered for it.
C24_LastDeliveredWins ==
    (calls = <<>> /\ pendingUpdates = <<>>) =>
        \A p \in DOMAIN delivered :
            /\ pairs[p].reserve0 = delivered[p].reserve0
            /\ pairs[p].reserve1 = delivered[p].reserve1

\* The update u is in the list q.
Holds(q, u) == \E k \in DOMAIN q : q[k] = u

\* A flush has just handed the queued update u to a processUpdates call, which
\* applied the whole queue to the graph and awaits the search.
FlushedAndApplied(u) ==
    /\ lastMon.op = "flush" /\ Holds(lastMon.updates, u)
    /\ AllApplied(pairs, lastMon.updates)
    /\ pendingUpdates = <<>>
    /\ PassInProgress(calls)

\* C25: (stop() not being called) every update appended to pendingUpdates
\* during a pass is eventually removed from the queue and applied to the graph
\* by a later processUpdates call followed by a search; and whenever no
\* processUpdates call is active, pendingUpdates is empty.
C25_PendingEventuallyFlushed ==
    /\ [](calls = <<>> => pendingUpdates = <<>>)
    /\ \A u \in MonUpdates : Holds(pendingUpdates, u) ~> FlushedAndApplied(u)

\* C25 witness: two updates queued by deliveries made during a pass have just
\* been flushed together; the pool holds the reserves of the second.
C25_Witness ==
    /\ lastMon.op = "flush" /\ lastMon.n = 2
    /\ lastMon.updates[1] # lastMon.updates[2]
    /\ pairs["p4"].reserve0 = lastMon.updates[2].reserve0
    /\ pendingUpdates = <<>>
    /\ PassInProgress(calls)

-----------------------------------------------------------------------------
(* Properties of the pair returned by calculateMaxProfit *)

\* C26: the pair (maxProfit, optimalInput) calculateMaxProfit returns was
\* evaluated together: whenever a profit was recorded, optimalInput is an
\* input amount at which the profit function of the candidate returns
\* maxProfit.
C26_PairEvaluatedTogether ==
    \A i \in DOMAIN validated :
        validated[i].profit # NegInfinity =>
            calculateProfit(Hops(validated[i], pairs, search.unit), validated[i].optimalInput)
                = validated[i].profit

-----------------------------------------------------------------------------
(* Properties of the flash-loan pool *)

\* The loan pool of a submission contains the start token, is none of the
\* pools of the opportunity, and the reserve of the start token recorded for it
\* in the best-pool index is at least 3 x the borrow amount.
LoanSuitable(l) ==
    /\ l.flashLoanPair \in DOMAIN pairs
    /\ l.startToken \in {pairs[l.flashLoanPair].token0, pairs[l.flashLoanPair].token1}
    /\ \A j \in DOMAIN Opportunity(l.opp).pairs : Opportunity(l.opp).pairs[j] # l.flashLoanPair
    /\ tokenToHighestReservePair[l.startToken].pairAddress = l.flashLoanPair
    /\ tokenToHighestReservePair[l.startToken].reserves >= 3 * l.borrowAmount

\* Whatever amount up to MaxBorrow is asked of a token with the pools of an
\* opportunity excluded, a pool that findBestPairForToken yields is suitable.
MaxBorrow == 4
YieldsSuitable ==
    \A token \in TokenAddrs, amountIn \in 0..MaxBorrow, name \in OpportunityNames :
        LET found == findBestPairForToken(tokenToHighestReservePair, token, amountIn,
                                          Opportunity(name).pairs)
        IN found # NullPair =>
              /\ found.pairAddress \in DOMAIN pairs
              /\ token \in {pairs[found.pairAddress].token0, pairs[found.pairAddress].token1}
              /\ \A j \in DOMAIN Opportunity(name).pairs :
                     Opportunity(name).pairs[j] # found.pairAddress
              /\ tokenToHighestReservePair[token].pairAddress = found.pairAddress
              /\ tokenToHighestReservePair[token].reserves >= 3 * amountIn

\* Manager m is at a circular opportunity, free of conflicts, for which
\* findBestPairForToken yields no pool.
NoLoanPool(m) ==
    /\ InLoop(m)
    /\ ~hasConflict(managers[m].usedPairs, CurrentOpp(m).pairs)
    /\ isCircular(CurrentOpp(m))
    /\ flashLoanPair(CurrentOpp(m)) = NullPair

\* C27: every flash-loan submission of executeWithFlashswap names a loan pool
\* that contains the start token, is not one of the opportunity's pools and
\* has a recorded reserve of the start token of at least 3 x the borrow amount;
\* when findBestPairForToken yields no pool, the step the manager takes on the
\* opportunity takes no nonce, sends no transaction and records the failure.
C27_LoanPoolSuitable ==
    [][\A m \in Managers :
         /\ managers'[m].loans # managers[m].loans => YieldsSuitable
         /\ \A l \in managers'[m].loans : LoanSuitable(l)
         /\ managers'[m].flashswap = {l.opp : l \in managers'[m].loans}
         /\ (NoLoanPool(m) /\ managers'[m] # managers[m]) =>
                /\ currentNonce' = currentNonce
                /\ mempool' = mempool
                /\ managers'[m].issued = managers[m].issued
                /\ managers[m].sorted[managers[m].idx] \in managers'[m].failed]_vars

\* C27 witness: m1 has submitted the circular opportunity A with a loan from
\* p3, the deepest USDC pool, and D, whose own pools include p3, has failed
\* without a submission; the deepest ETH pool (10 ETH) is found for a loan of 3
\* and not for a loan of 4.
C27_Witness ==
    /\ [opp |-> "A", flashLoanPair |-> "p3", startToken |-> "USDC", borrowAmount |-> 1]
            \in managers["m1"].loans
    /\ "D" \in managers["m1"].failed /\ "D" \notin managers["m1"].issued
    /\ nonceLog.op = "take"
    /\ findBestPairForToken(tokenToHighestReservePair, "ETH", 3, <<>>).pairAddress = "p2"
    /\ findBestPairForToken(tokenToHighestReservePair, "ETH", 4, <<>>) = NullPair

-----------------------------------------------------------------------------
(* Properties of the best-pool index and of the batch update *)

\* The registered pools containing the token.
PoolsOf(token) == {p \in DOMAIN pairs : token \in {pairs[p].token0, pairs[p].token1}}

\* C28: after any sequence of addPair and reserve updates, for every token of
\* a registered pool the entry tokenToHighestReservePair[token] names a
\* registered pool containing the token whose current reserve of the token is
\* the maximum over all registered pools containing it, and records that
\* pool's current reserve and fee.
C28_IndexNamesDeepestPool ==
    \A token \in TokenAddrs :
        PoolsOf(token) # {} =>
            /\ token \in DOMAIN tokenToHighestReservePair
            /\ LET entry == tokenToHighestReservePair[token]
               IN /\ entry.pairAddress \in PoolsOf(token)
                  /\ entry.reserves = ReserveOfToken(entry.pairAddress, token)
                  /\ entry.fee = pairs[entry.pairAddress].fee
                  /\ \A q \in PoolsOf(token) :
                         ReserveOfToken(q, token) <= ReserveOfToken(entry.pairAddress, token)

\* The pools of G that the batch names, and the tokens of those pools.
NamedPools(G, us) == {us[k].pairAddress : k \in DOMAIN us} \cap DOMAIN G.pairs
NamedTokens(G, us) ==
    UNION {{G.pairs[p].token0, G.pairs[p].token1} : p \in NamedPools(G, us)}

\* What updatePairReservesBatch(us) leaves alone and what it stores, between
\* the graph G before the call and the graph H after it.
BatchFrame(G, H, us) ==
    LET named == NamedPools(G, us)
        namedTokens == NamedTokens(G, us)
    IN
    /\ H.tokens = G.tokens
    /\ DOMAIN H.pairs = DOMAIN G.pairs
    /\ H.edgeIndex = G.edgeIndex
    /\ \A p \in DOMAIN G.pairs \ named : H.pairs[p] = G.pairs[p]
    /\ \A p \in named :
          LET k == CHOOSE k \in DOMAIN us :
                      /\ us[k].pairAddress = p
                      /\ \A j \in DOMAIN us : us[j].pairAddress = p => j <= k
          IN H.pairs[p] = [G.pairs[p] EXCEPT !.reserve0 = us[k].reserve0,
                                             !.reserve1 = us[k].reserve1]
    /\ \A t \in TokenAddrs :
          /\ Len(H.graph[t]) = Len(G.graph[t])
          /\ \A i \in DOMAIN G.graph[t] :
                /\ H.graph[t][i].to = G.graph[t][i].to
                /\ H.graph[t][i].pairAddress = G.graph[t][i].pairAddress
                /\ H.graph[t][i].direction = G.graph[t][i].direction
                /\ G.graph[t][i].pairAddress \notin named => H.graph[t][i] = G.graph[t][i]
    /\ \A t \in DOMAIN G.best :
          /\ t \in DOMAIN H.best
          /\ t \notin namedTokens => H.best[t] = G.best[t]
    /\ DOMAIN H.best \subseteq DOMAIN G.best \cup namedTokens

\* The updates the batches of the frame property are made of: a zero reserve
\* and new reserves for p4, new reserves for p5, and the unknown pool p3.
FrameUpdates ==
    {Update("p4", 0, 1), Update("p4", 1, 1), Update("p5", MaxReserve, MaxReserve),
     Update("p3", 1, 1)}

\* C29: updatePairReservesBatch changes only the stored reserves and the two
\* edges of the registered pools the batch names, and the best-pool entries of
\* their tokens: the token set, the set of registered pools, every other
\* pool's reserves and edges, and the destination, pool address and direction
\* of every edge are unchanged; an entry naming an unknown pool is skipped and
\* the other entries are applied.  Checked for every batch of FrameUpdates on
\* every reachable graph.
C29_BatchFrame ==
    \A us \in SeqsUpTo(FrameUpdates, MaxBatch) :
        LET G == GraphNow
            H == updatePairReservesBatch(G, us)
        IN BatchFrame(G, H, us)

\* C29 witness: both pools are registered and p4 stores a zero reserve, which
\* only an update can have stored (its edges keep the reserves of before); a
\* batch naming the unknown pool p3 and then p5 changes the reserves of p5.
C29_Witness ==
    /\ DOMAIN pairs = GraphPools
    /\ pairs["p4"].reserve0 = 0
    /\ \E i \in EdgesAt("USDC", "p4") : graph["USDC"][i].reserveIn # 0
    /\ pairs["p5"].reserve0 = MaxReserve
    /\ updatePairReservesBatch(GraphNow, <<Update("p3", 1, 1), Update("p5", 1, 1)>>)
            .pairs["p5"].reserve0 = 1

-----------------------------------------------------------------------------
(* Properties of the buckets of the search table *)

\* Step j has inserted all its extensions.
StepComplete(j) ==
    /\ search.pc \in {"loop", "validate"}
    /\ 1 <= j /\ j <= search.step
    /\ j = search.step => work = <<>>

\* Does the pair of an entry and an edge yield an extension ending at token?
ExtendsTo(w, token) == ~PairUsed(w.entry, w.edge) /\ w.edge.to = token

\* The extensions step j inserts for the token, in the order of insertion
\* (dp[j] is the table of step j - 1).
Extensions(j, token) ==
    LET ws == SelectSeq(StepWork(dp[j], graph), LAMBDA w : ExtendsTo(w, token))
    IN [n \in DOMAIN ws |-> NewEntry(ws[n].entry, ws[n].edge)]

\* a ranks before b among the extensions E: a higher output, or the same
\* output and inserted earlier.
RanksBefore(E, a, b) ==
    \/ FLess(b.amountOut, a.amountOut)
    \/ /\ a.amountOut = b.amountOut
       /\ \E i, n \in DOMAIN E : i < n /\ E[i] = a /\ E[n] = b

\* The bucket B holds the MAX_ENTRIES_PER_TOKEN first-ranked extensions of E,
\* in rank order.
HoldsTop(B, E) ==
    /\ Len(B) = (IF Len(E) < MAX_ENTRIES_PER_TOKEN THEN Len(E) ELSE MAX_ENTRIES_PER_TOKEN)
    /\ \A i \in DOMAIN B : \E n \in DOMAIN E : E[n] = B[i]
    /\ \A i, n \in DOMAIN B : i < n => RanksBefore(E, B[i], B[n])
    /\ \A n \in DOMAIN E :
          (\A i \in DOMAIN B : B[i] # E[n]) => \A i \in DOMAIN B : RanksBefore(E, B[i], E[n])

\* C30: at every step and token, once all extensions of the step have been
\* inserted, the bucket holds the MAX_ENTRIES_PER_TOKEN extensions with the
\* highest simulated output among all extensions inserted for that token at
\* that step, in non-increasing order of output, and among extensions of equal
\* output the ones inserted earlier are kept (and come first).
C30_BucketHoldsTopEntries ==
    \A j \in 1..MaxDepth : StepComplete(j) =>
        \A token \in TokenAddrs : HoldsTop(MapGet(dp[j + 1], token), Extensions(j, token))

\* C30 witness: a step is complete in which more extensions were inserted for
\* a token than the bucket holds, and an extension left out has the same output
\* as the last one kept.
C30_Witness ==
    \E j \in 1..MaxDepth : StepComplete(j) /\
        \E token \in TokenAddrs :
            LET B == MapGet(dp[j + 1], token)
                E == Extensions(j, token)
            IN /\ Len(E) > MAX_ENTRIES_PER_TOKEN
               /\ Len(B) = MAX_ENTRIES_PER_TOKEN
               /\ \E n \in DOMAIN E :
                      /\ \A i \in DOMAIN B : B[i] # E[n]
                      /\ E[n].amountOut = B[Len(B)].amountOut

====
